---- MODULE Spec2Model ----
(***************************************************************************)
(* Model of the FTS AI command protocol and ledger: the command parser     *)
(* (src/lib/ai-command-parser.ts), the chat executor                       *)
(* (src/components/AdvisorChat.tsx, send), the retry policy                *)
(* (src/lib/ai-error-handler.ts) and the ledger store (src/lib/storage.ts).*)
(*                                                                         *)
(* Conventions.  Money is an integer number of thousandths of a ringgit    *)
(* ("mills"): 25.00 is 25000, 12.345 is 12345.  Free-text strings are      *)
(* sequences of character codes, so trimming, length, number formatting    *)
(* and hashing are computed as the code computes them.  Closed             *)
(* vocabularies (action, type) are TLA+ strings with a table of their      *)
(* characters.  An absent (undefined) field of a JavaScript object is a    *)
(* field that is not in the DOMAIN of the record.                          *)
(***************************************************************************)
EXTENDS Integers, Sequences, FiniteSets, TLC

Has(obj, f) == f \in DOMAIN obj

\* const v = ...: the value v named once and used in F
With(v, F(_)) == F(v)

(***************************************************************************)
(* Strings                                                                 *)
(***************************************************************************)
IsSpace(c) == c \in {32, 9, 10, 13}
IsDigit(c) == c \in 48..57

RECURSIVE TrimLeft(_)
TrimLeft(s) == IF s # <<>> /\ IsSpace(Head(s)) THEN TrimLeft(Tail(s)) ELSE s

RECURSIVE TrimRight(_)
TrimRight(s) ==
  IF s # <<>> /\ IsSpace(s[Len(s)]) THEN TrimRight(SubSeq(s, 1, Len(s) - 1)) ELSE s

\* String.prototype.trim
Trim(s) == TrimRight(TrimLeft(s))

\* /<[^>]*>/.test(s): a '<' with a '>' somewhere after it
HasHtmlTag(s) == \E i \in 1..Len(s) : \E j \in (i + 1)..Len(s) : s[i] = 60 /\ s[j] = 62

RECURSIVE NatDigits(_)
NatDigits(n) == IF n < 10 THEN <<48 + n>> ELSE Append(NatDigits(n \div 10), 48 + (n % 10))

\* the fraction digits of f thousandths (1..999), trailing zeros dropped
FracDigits(f) ==
  IF f % 10 # 0 THEN <<48 + (f \div 100), 48 + ((f \div 10) % 10), 48 + (f % 10)>>
  ELSE IF (f \div 10) % 10 # 0 THEN <<48 + (f \div 100), 48 + ((f \div 10) % 10)>>
  ELSE <<48 + (f \div 100)>>

\* the numeral of a mills, a >= 0
UnsignedToString(a) ==
  NatDigits(a \div 1000) \o (IF a % 1000 = 0 THEN <<>> ELSE <<46>> \o FracDigits(a % 1000))

\* String(n) / n.toString() of a JavaScript number holding m mills
NumberToString(m) ==
  IF m < 0 THEN <<45>> \o UnsignedToString(-m) ELSE UnsignedToString(m)

RECURSIVE DigitsValue(_)
DigitsValue(ds) ==
  IF ds = <<>> THEN 0
  ELSE DigitsValue(SubSeq(ds, 1, Len(ds) - 1)) * 10 + (ds[Len(ds)] - 48)

\* index of the first '.' of s, 0 when there is none
DotIndex(s) ==
  IF \E i \in 1..Len(s) : s[i] = 46
  THEN CHOOSE i \in 1..Len(s) : s[i] = 46 /\ \A j \in 1..(i - 1) : s[j] # 46
  ELSE 0

\* the digits before and after the point of a numeral
IntegerOf(s) == IF DotIndex(s) = 0 THEN s ELSE SubSeq(s, 1, DotIndex(s) - 1)

FractionOf(s) == IF DotIndex(s) = 0 THEN <<>> ELSE SubSeq(s, DotIndex(s) + 1, Len(s))

RECURSIVE StripZeros(_)
StripZeros(ds) == IF ds # <<>> /\ ds[1] = 48 THEN StripZeros(Tail(ds)) ELSE ds

AllZero(ds) == \A i \in 1..Len(ds) : ds[i] = 48

\* parseFloat of a numeral that passed the amount format test: whole units,
\* for a numeral below ten to the ninth
ParseWhole(s) == DigitsValue(StripZeros(IntegerOf(s)))

\* the digit at place i of the fraction fr, 0 past its end
FracDigit(fr, i) == IF i <= Len(fr) THEN fr[i] - 48 ELSE 0

\* parseFloat of such a numeral: the thousandths of its fraction
ParseFrac(s) ==
  With(FractionOf(s),
       LAMBDA fr : FracDigit(fr, 1) * 100 + FracDigit(fr, 2) * 10 + FracDigit(fr, 3))

\* parseFloat yields the nearest double.  A double between 2^29 and 2^30 has
\* 23 bits after the binary point: the fraction 0.fr times 2^23 from digit i
\* on, as quotient q, next decimal digit r and whether more follows
FractionBitsWidth == 8388608

RECURSIVE ScaledFraction(_, _)
ScaledFraction(fr, i) ==
  IF i > Len(fr) THEN [q |-> 0, r |-> 0, sticky |-> FALSE]
  ELSE With(ScaledFraction(fr, i + 1), LAMBDA t :
         [q |-> ((fr[i] - 48) * FractionBitsWidth + t.q) \div 10,
          r |-> ((fr[i] - 48) * FractionBitsWidth + t.q) % 10,
          sticky |-> (t.r # 0 \/ t.sticky)])

\* round to nearest, ties to even
FractionBits(fr) ==
  With(ScaledFraction(fr, 1), LAMBDA t :
    IF t.r > 5 \/ (t.r = 5 /\ (t.sticky \/ t.q % 2 = 1)) THEN t.q + 1 ELSE t.q)

(***************************************************************************)
(* Decimal arithmetic utility (FinancialMath)                              *)
(***************************************************************************)
add(a, b) == a + b

subtract(a, b) == a - b

RECURSIVE sum(_)
sum(amounts) == IF amounts = <<>> THEN 0 ELSE add(sum(SubSeq(amounts, 1, Len(amounts) - 1)), amounts[Len(amounts)])

\* toDecimalPlaces(2) under ROUND_HALF_UP: ties go away from zero
round(m) ==
  IF m >= 0 THEN ((m + 5) \div 10) * 10 ELSE -((((-m) + 5) \div 10) * 10)

(***************************************************************************)
(* Input validator                                                         *)
(***************************************************************************)
\* trimmed.replace(/[RM\s,]/g, '')
StripCurrency(s) == SelectSeq(s, LAMBDA c : c \notin {82, 77, 44} /\ ~IsSpace(c))

\* /^\d*\.?\d+$/
MatchesAmountFormat(s) ==
  /\ Len(s) >= 1
  /\ \A i \in 1..Len(s) : IsDigit(s[i]) \/ s[i] = 46
  /\ Cardinality({i \in 1..Len(s) : s[i] = 46}) <= 1
  /\ IsDigit(s[Len(s)])

\* numValue <= 0, for a numeral that passed the format test
NotPositive(cleaned) == AllZero(IntegerOf(cleaned)) /\ AllZero(FractionOf(cleaned))

\* numValue > 999999999.99, both sides doubles
ExceedsCeiling(cleaned) ==
  \/ Len(StripZeros(IntegerOf(cleaned))) > 9
  \/ /\ ParseWhole(cleaned) = 999999999
     /\ FractionBits(FractionOf(cleaned)) > FractionBits(<<57, 57>>)

\* FinancialMath.round(numValue), in whole units and cents
RoundedParts(whole, cents) ==
  [isValid |-> TRUE, units |-> whole + cents \div 100, cents |-> cents % 100]

\* validateAmount, the value in whole units and cents
validateAmountParts(input) ==
  With(Trim(input), LAMBDA trimmed :
    IF trimmed = <<>> THEN [isValid |-> FALSE, error |-> "Amount is required"]
    ELSE With(StripCurrency(trimmed), LAMBDA cleaned :
      IF ~MatchesAmountFormat(cleaned)
      THEN [isValid |-> FALSE, error |-> "Invalid amount format"]
      ELSE IF NotPositive(cleaned)
      THEN [isValid |-> FALSE, error |-> "Amount must be greater than 0"]
      ELSE IF ExceedsCeiling(cleaned)
      THEN [isValid |-> FALSE, error |-> "Amount too large"]
      ELSE RoundedParts(ParseWhole(cleaned), (ParseFrac(cleaned) + 5) \div 10)))

\* validateAmount, the value in mills
validateAmount(input) ==
  With(validateAmountParts(input), LAMBDA parts :
    IF parts.isValid
    THEN [isValid |-> TRUE, value |-> parts.units * 1000 + parts.cents * 10]
    ELSE parts)

validatePersonName(input) ==
  With(Trim(input), LAMBDA trimmed :
    IF trimmed = <<>> THEN [isValid |-> FALSE, error |-> "Name is required"]
    ELSE IF Len(trimmed) < 2
    THEN [isValid |-> FALSE, error |-> "Name must be at least 2 characters"]
    ELSE IF Len(trimmed) > 50
    THEN [isValid |-> FALSE, error |-> "Name must be less than 50 characters"]
    ELSE IF HasHtmlTag(trimmed)
    THEN [isValid |-> FALSE, error |-> "Invalid characters in name"]
    ELSE [isValid |-> TRUE, value |-> trimmed])

validateNote(input) ==
  With(Trim(input), LAMBDA trimmed :
    IF Len(trimmed) > 200
    THEN [isValid |-> FALSE, error |-> "Note must be less than 200 characters"]
    ELSE IF HasHtmlTag(trimmed)
    THEN [isValid |-> FALSE, error |-> "Invalid characters in note"]
    ELSE [isValid |-> TRUE, value |-> trimmed])

\* A date string is modelled by whether Date can parse it and by its
\* distance in days from today (negative: in the past).
validateDate(d) ==
  IF ~d.parseable THEN [isValid |-> FALSE, error |-> "Invalid date format"]
  ELSE IF d.offset > 0
  THEN [isValid |-> FALSE, error |-> "Cannot add transactions for future dates"]
  ELSE IF d.offset <= -(5 * 365)
  THEN [isValid |-> FALSE, error |-> "Date cannot be more than 5 years ago"]
  ELSE [isValid |-> TRUE, value |-> d]

(***************************************************************************)
(* Command parser: validation                                              *)
(***************************************************************************)
VALID_ACTIONS ==
  {"add_transaction", "edit_transaction", "delete_transaction",
   "add_debt", "mark_debt_paid", "delete_debt",
   "add_borrow", "mark_borrow_paid", "delete_borrow"}

\* JavaScript truthiness of an optional string field: present and not ''
Truthy(obj, f) == Has(obj, f) /\ obj[f] # <<>>

\* the amount block shared by validateTransactionAdd and validateDebtAdd: the
\* errors it pushes
AmountErrors(command, required, tooSmall, tooLarge, max) ==
  IF ~Has(command, "amount") THEN <<required>>
  ELSE With(validateAmount(NumberToString(command.amount)), LAMBDA amountValidation :
    IF ~amountValidation.isValid THEN <<amountValidation.error>>
    ELSE (IF amountValidation.value <= 0 THEN <<tooSmall>> ELSE <<>>) \o
         (IF amountValidation.value > max THEN <<tooLarge>> ELSE <<>>))

\* the same block: command.amount = FinancialMath.round(amount) when
\* validateAmount passed
WithRoundedAmount(command) ==
  IF ~Has(command, "amount") THEN command
  ELSE With(validateAmount(NumberToString(command.amount)), LAMBDA amountValidation :
    IF amountValidation.isValid
    THEN [command EXCEPT !.amount = round(amountValidation.value)]
    ELSE command)

NoteErrors(command) ==
  IF ~Truthy(command, "note") THEN <<>>
  ELSE With(validateNote(command.note), LAMBDA noteValidation :
    IF ~noteValidation.isValid THEN <<noteValidation.error>> ELSE <<>>)

DateErrors(command, f) ==
  IF ~Has(command, f) THEN <<>>
  ELSE With(validateDate(command[f]), LAMBDA dateValidation :
    IF ~dateValidation.isValid THEN <<dateValidation.error>> ELSE <<>>)

Outcome(errors, command) ==
  IF errors # <<>> THEN [success |-> FALSE, error |-> errors]
  ELSE [success |-> TRUE, command |-> command]

TypeErrors(command) ==
  IF ~Has(command, "type") \/ command.type \notin {"income", "expense"}
  THEN <<"Invalid transaction type. Must be \"income\" or \"expense\"">> ELSE <<>>

CategoryErrors(command) ==
  IF ~Truthy(command, "category") \/ Trim(command.category) = <<>>
  THEN <<"Category is required">> ELSE <<>>

validateTransactionAdd(command) ==
  Outcome(TypeErrors(command) \o
          AmountErrors(command, "Amount is required", "Amount must be greater than 0",
                       "Amount seems unreasonably large (max: RM 1,000,000)", 1000000 * 1000) \o
          CategoryErrors(command) \o NoteErrors(command) \o DateErrors(command, "date"),
          WithRoundedAmount(command))

validateTransactionEdit(command) ==
  IF ~Truthy(command, "entryId")
  THEN [success |-> FALSE, error |-> <<"Entry ID is required for edit operations">>]
  ELSE IF ~Has(command, "amount") THEN [success |-> TRUE, command |-> command]
  ELSE With(validateAmount(NumberToString(command.amount)), LAMBDA amountValidation :
    IF ~amountValidation.isValid
    THEN [success |-> FALSE, error |-> <<amountValidation.error>>]
    ELSE [success |-> TRUE, command |-> command])

validateTransactionDelete(command) ==
  IF ~Truthy(command, "entryId")
  THEN [success |-> FALSE, error |-> <<"Entry ID is required for delete operations">>]
  ELSE [success |-> TRUE, command |-> command]

\* the person block of validateDebtAdd: the errors it pushes
PersonErrors(command) ==
  IF ~Truthy(command, "person") \/ Trim(command.person) = <<>>
  THEN <<"Person name is required for debt entries">>
  ELSE With(validatePersonName(Trim(command.person)), LAMBDA personValidation :
    IF ~personValidation.isValid THEN <<personValidation.error>> ELSE <<>>)

\* the same block: command.person = personValidation.value
WithNormalizedPerson(command) ==
  IF ~Truthy(command, "person") \/ Trim(command.person) = <<>> THEN command
  ELSE With(validatePersonName(Trim(command.person)), LAMBDA personValidation :
    IF personValidation.isValid
    THEN [command EXCEPT !.person = personValidation.value]
    ELSE command)

validateDebtAdd(command) ==
  Outcome(PersonErrors(command) \o
          AmountErrors(command, "Amount is required for debt entries",
                       "Debt amount must be greater than 0",
                       "Debt amount seems unreasonably large (max: RM 100,000)", 100000 * 1000) \o
          NoteErrors(command),
          WithRoundedAmount(WithNormalizedPerson(command)))

\* a validateBorrowAdd that leaves the due date unexamined
validateBorrowAddWithoutDate(command) == validateDebtAdd(command)

validateBorrowAdd(command) ==
  With(validateDebtAdd(command), LAMBDA result :
    IF result.success /\ DateErrors(command, "dueDate") # <<>>
    THEN [success |-> FALSE, error |-> DateErrors(command, "dueDate")]
    ELSE result)

validateDebtOperation(command) ==
  IF ~Truthy(command, "debtId")
  THEN [success |-> FALSE, error |-> <<"Debt ID is required for debt operations">>]
  ELSE [success |-> TRUE, command |-> command]

validateBorrowOperation(command) ==
  IF ~Truthy(command, "borrowId")
  THEN [success |-> FALSE, error |-> <<"Borrow ID is required for borrow operations">>]
  ELSE [success |-> TRUE, command |-> command]

validateCommand(command) ==
  IF ~Has(command, "action") \/ command.action \notin VALID_ACTIONS
  THEN [success |-> FALSE, error |-> <<"Invalid action">>]
  ELSE CASE command.action = "add_transaction" -> validateTransactionAdd(command)
         [] command.action = "edit_transaction" -> validateTransactionEdit(command)
         [] command.action = "delete_transaction" -> validateTransactionDelete(command)
         [] command.action = "add_debt" -> validateDebtAdd(command)
         [] command.action = "add_borrow" -> validateBorrowAdd(command)
         [] command.action \in {"mark_debt_paid", "delete_debt"} -> validateDebtOperation(command)
         [] command.action \in {"mark_borrow_paid", "delete_borrow"} -> validateBorrowOperation(command)

(***************************************************************************)
(* Command parser: identity                                                *)
(***************************************************************************)
\* the characters of the words of the closed vocabularies
Chars(w) ==
  CASE w = "add_transaction" -> <<97, 100, 100, 95, 116, 114, 97, 110, 115, 97, 99, 116, 105, 111, 110>>
    [] w = "edit_transaction" -> <<101, 100, 105, 116, 95, 116, 114, 97, 110, 115, 97, 99, 116, 105, 111, 110>>
    [] w = "delete_transaction" -> <<100, 101, 108, 101, 116, 101, 95, 116, 114, 97, 110, 115, 97, 99, 116, 105, 111, 110>>
    [] w = "add_debt" -> <<97, 100, 100, 95, 100, 101, 98, 116>>
    [] w = "mark_debt_paid" -> <<109, 97, 114, 107, 95, 100, 101, 98, 116, 95, 112, 97, 105, 100>>
    [] w = "delete_debt" -> <<100, 101, 108, 101, 116, 101, 95, 100, 101, 98, 116>>
    [] w = "add_borrow" -> <<97, 100, 100, 95, 98, 111, 114, 114, 111, 119>>
    [] w = "mark_borrow_paid" -> <<109, 97, 114, 107, 95, 98, 111, 114, 114, 111, 119, 95, 112, 97, 105, 100>>
    [] w = "delete_borrow" -> <<100, 101, 108, 101, 116, 101, 95, 98, 111, 114, 114, 111, 119>>
    [] w = "frobnicate" -> <<102, 114, 111, 98, 110, 105, 99, 97, 116, 101>>
    [] w = "income" -> <<105, 110, 99, 111, 109, 101>>
    [] w = "expense" -> <<101, 120, 112, 101, 110, 115, 101>>

Min(a, b) == IF a < b THEN a ELSE b

\* one step of simpleHash on a 32-bit value held as two 16-bit halves:
\* hash = ((hash << 5) - hash) + char; hash = hash & hash
HashStep(h, c) ==
  LET lo == h[2] * 31 + c
      hi == h[1] * 31 + (lo \div 65536)
  IN  <<hi % 65536, lo % 65536>>

\* the for loop of simpleHash over str[i..last] with the running hash
RECURSIVE HashLoop(_, _, _, _)
HashLoop(hash, str, i, last) ==
  IF i > last THEN hash
  ELSE LET next == HashStep(hash, str[i]) IN
    IF next[1] >= 0 THEN HashLoop(next, str, i + 1, last) ELSE hash

\* the same loop taken eight characters at a time, which keeps the
\* evaluation shallow on long strings
RECURSIVE HashFrom(_, _, _)
HashFrom(hash, str, i) ==
  IF i > Len(str) THEN hash
  ELSE LET next == HashLoop(hash, str, i, Min(i + 7, Len(str))) IN
    IF next[1] >= 0 THEN HashFrom(next, str, i + 8) ELSE hash

HashFold(str) == HashFrom(<<0, 0>>, str, 1)

\* Math.abs of the signed 32-bit value <<hi, lo>>
Abs32(h) ==
  IF h[1] < 32768 THEN h
  ELSE <<65536 - h[1] - (IF h[2] = 0 THEN 0 ELSE 1), (65536 - h[2]) % 65536>>

\* Math.abs(hash).toString(36).substring(0, 8): at most 7 digits, so the
\* string is one-to-one with the absolute value
simpleHash(str) == Abs32(HashFold(str))

\* the characters of member f of command, as an identity built member by
\* member would read them
MemberChars(command, f) ==
  IF ~Has(command, f) THEN <<>>
  ELSE IF f \in {"action", "type"} THEN Chars(command[f])
  ELSE IF f = "amount" THEN NumberToString(round(command.amount))
  ELSE command[f]

RECURSIVE MembersInOrder(_, _)
MembersInOrder(command, ks) ==
  IF ks = <<>> THEN <<>>
  ELSE MemberChars(command, Head(ks)) \o <<124>> \o MembersInOrder(command, Tail(ks))

\* generateCommandId hashing the members in the order the object lists them
\* (as a hash of JSON.stringify(command) would)
generateCommandIdInMemberOrder(command) ==
  <<command.action>> \o simpleHash(MembersInOrder(command, command.keys))

\* a part of the identity: the field's value, '' when it is absent
Part(command, f) == IF Has(command, f) THEN command[f] ELSE <<>>

generateCommandId(command) ==
  <<command.action>> \o
  simpleHash(Chars(command.action) \o <<124>> \o
             (IF Has(command, "type") THEN Chars(command.type) ELSE <<>>) \o <<124>> \o
             (IF Has(command, "amount") /\ command.amount # 0
              THEN NumberToString(round(command.amount)) ELSE <<>>) \o <<124>> \o
             Part(command, "category") \o <<124>> \o Part(command, "person") \o <<124>> \o
             Part(command, "note") \o <<124>> \o Part(command, "entryId") \o <<124>> \o
             Part(command, "debtId") \o <<124>> \o Part(command, "borrowId"))

(***************************************************************************)
(* Streamed text.  A text is a sequence of atoms: "M" the marker           *)
(* __apply__, "s" a whitespace character, "t" a character that is neither  *)
(* whitespace nor a brace, "{" and "}" the brace characters, "q" a double  *)
(* quote closing a string, and a body atom: the members of a JSON object   *)
(* (text without braces).  A body of kind "plain" is a complete member     *)
(* list, one of kind "key" ends with a member name and colon that awaits a *)
(* nested object value, one of kind "note" ends inside the string of its   *)
(* note member, which the following atoms continue up to "q".              *)
(***************************************************************************)
Body(b) ==
  CASE b = "debtAlex" ->
         [kind |-> "plain",
          obj |-> [action |-> "add_debt", person |-> <<65, 108, 101, 120>>, amount |-> 25000,
                   keys |-> <<"action", "person", "amount">>]]
    [] b = "debtAlexRev" ->
         [kind |-> "plain",
          obj |-> [action |-> "add_debt", person |-> <<65, 108, 101, 120>>, amount |-> 25000,
                   keys |-> <<"amount", "person", "action">>]]
    [] b = "debtAlexPad" ->
         [kind |-> "plain",
          obj |-> [action |-> "add_debt", person |-> <<32, 65, 108, 101, 120, 32>>, amount |-> 25004,
                   keys |-> <<"action", "person", "amount">>]]
    [] b = "debtBo" ->
         [kind |-> "plain",
          obj |-> [action |-> "add_debt", person |-> <<66, 111>>, amount |-> 7000,
                   keys |-> <<"action", "person", "amount">>]]
    [] b = "debtZero" ->
         [kind |-> "plain",
          obj |-> [action |-> "add_debt", person |-> <<65, 108, 101, 120>>, amount |-> 0,
                   keys |-> <<"action", "person", "amount">>]]
    [] b = "debtAlexMeta" ->
         [kind |-> "key",
          obj |-> [action |-> "add_debt", person |-> <<65, 108, 101, 120>>, amount |-> 25000,
                   keys |-> <<"action", "person", "amount", "meta">>]]
    [] b = "debtAlexNote" ->
         [kind |-> "note",
          obj |-> [action |-> "add_debt", person |-> <<65, 108, 101, 120>>, amount |-> 25000,
                   note |-> <<97>>,
                   keys |-> <<"action", "person", "amount", "note">>]]
    [] b = "txnLunch" ->
         [kind |-> "plain",
          obj |-> [action |-> "add_transaction", type |-> "expense", amount |-> 12345,
                   category |-> <<70, 111, 111, 100>>, note |-> <<76, 117, 110, 99, 104>>,
                   keys |-> <<"action", "type", "amount", "category", "note">>]]
    [] b = "borrowBo" ->
         [kind |-> "plain",
          obj |-> [action |-> "add_borrow", person |-> <<66, 111>>, amount |-> 10000,
                   keys |-> <<"action", "person", "amount">>]]
    [] b = "editE1" ->
         [kind |-> "plain",
          obj |-> [action |-> "edit_transaction", entryId |-> <<101, 49>>, amount |-> 5000,
                   keys |-> <<"action", "entryId", "amount">>]]
    [] b = "delE1" ->
         [kind |-> "plain",
          obj |-> [action |-> "delete_transaction", entryId |-> <<101, 49>>,
                   keys |-> <<"action", "entryId">>]]
    [] b = "markD1" ->
         [kind |-> "plain",
          obj |-> [action |-> "mark_debt_paid", debtId |-> <<100, 49>>,
                   keys |-> <<"action", "debtId">>]]
    [] b = "delD1" ->
         [kind |-> "plain",
          obj |-> [action |-> "delete_debt", debtId |-> <<100, 49>>,
                   keys |-> <<"action", "debtId">>]]
    [] b = "markB1" ->
         [kind |-> "plain",
          obj |-> [action |-> "mark_borrow_paid", borrowId |-> <<98, 49>>,
                   keys |-> <<"action", "borrowId">>]]
    [] b = "delB1" ->
         [kind |-> "plain",
          obj |-> [action |-> "delete_borrow", borrowId |-> <<98, 49>>,
                   keys |-> <<"action", "borrowId">>]]
    [] b = "frob" ->
         [kind |-> "plain", obj |-> [action |-> "frobnicate", keys |-> <<"action">>]]

Structural == {"M", "s", "t", "{", "}", "q"}

IsBody(a) == a \notin Structural

\* the character an atom stands for inside a JSON string
AtomChar(a) ==
  CASE a = "{" -> 123 [] a = "}" -> 125 [] a = "s" -> 32 [] a = "t" -> 116
    [] a = "M" -> 95 [] OTHER -> 98

RECURSIVE AtomChars(_)
AtomChars(atoms) ==
  IF atoms = <<>> THEN <<>> ELSE <<AtomChar(Head(atoms))>> \o AtomChars(Tail(atoms))

\* the atoms of c without the whitespace that lies outside a string
RECURSIVE StripWs(_, _)
StripWs(c, inString) ==
  IF c = <<>> THEN <<>>
  ELSE IF Head(c) = "s" /\ ~inString THEN StripWs(Tail(c), inString)
  ELSE <<Head(c)>> \o
       StripWs(Tail(c),
               IF IsBody(Head(c)) /\ ~inString THEN Body(Head(c)).kind = "note"
               ELSE IF Head(c) = "q" THEN FALSE ELSE inString)

\* JSON.parse of the atoms c, which start with "{" and a body atom of
\* members body
ParseMembers(c, body) ==
  IF Len(c) = 3 /\ c[3] = "}" /\ body.kind = "plain"
  THEN [ok |-> TRUE, obj |-> body.obj]
  ELSE IF Len(c) = 5 /\ c[3] = "{" /\ c[4] = "}" /\ c[5] = "}" /\ body.kind = "key"
  THEN [ok |-> TRUE, obj |-> body.obj]
  ELSE IF Len(c) >= 4 /\ c[Len(c)] = "}" /\ c[Len(c) - 1] = "q" /\ body.kind = "note"
          /\ \A i \in 3..(Len(c) - 2) : c[i] # "q"
  THEN [ok |-> TRUE,
        obj |-> [body.obj EXCEPT !.note = @ \o AtomChars(SubSeq(c, 3, Len(c) - 2))]]
  ELSE [ok |-> FALSE]

\* JSON.parse of the atoms c, whitespace outside strings removed
ParseStripped(c) ==
  IF Len(c) = 2 /\ c[2] = "}" THEN [ok |-> TRUE, obj |-> [keys |-> <<>>]]
  ELSE IF Len(c) >= 3 /\ IsBody(c[2]) THEN ParseMembers(c, Body(c[2]))
  ELSE [ok |-> FALSE]

\* JSON.parse of a candidate that starts with "{": the object, or a SyntaxError
JSONParse(cand) == ParseStripped(StripWs(cand, FALSE))

(***************************************************************************)
(* Command parser: parseCommand                                            *)
(***************************************************************************)
\* index of the first atom after position i that is not whitespace (\s*)
RECURSIVE SkipWs(_, _)
SkipWs(text, i) == IF i <= Len(text) /\ text[i] = "s" THEN SkipWs(text, i + 1) ELSE i

\* applyRegex = /__apply__\s*({[^}]*(?:}[^}]*)*})/g is greedy: from the "{"
\* that follows the marker, [^}]* and (?:}[^}]*)* take every character up to
\* the last "}" of the text
LastClose(text, open) ==
  CHOOSE k \in (open + 1)..Len(text) :
    text[k] = "}" /\ \A m \in (k + 1)..Len(text) : text[m] # "}"

\* the regex matches at marker position i
MatchesAt(text, i) ==
  /\ text[i] = "M"
  /\ SkipWs(text, i + 1) <= Len(text)
  /\ text[SkipWs(text, i + 1)] = "{"
  /\ \E k \in (SkipWs(text, i + 1) + 1)..Len(text) : text[k] = "}"

\* applyRegex.exec from lastIndex: the leftmost match at or after from, 0 if none
NextMatch(text, from) ==
  IF \E i \in from..Len(text) : MatchesAt(text, i)
  THEN CHOOSE i \in from..Len(text) :
         MatchesAt(text, i) /\ \A j \in from..(i - 1) : ~MatchesAt(text, j)
  ELSE 0

\* match[1] of the match at marker position i
JsonString(text, i) ==
  SubSeq(text, SkipWs(text, i + 1), LastClose(text, SkipWs(text, i + 1)))

isDuplicate(commandId, processed, existingCommandIds) ==
  commandId \in processed \/ commandId \in existingCommandIds

\* the result for a command that passed validation, whose identity is
\* commandId
Deduplicated(command, commandId, processed, existingCommandIds) ==
  IF isDuplicate(commandId, processed, existingCommandIds)
  THEN [success |-> FALSE, error |-> <<"Duplicate command detected and skipped">>,
        commandId |-> commandId]
  ELSE [success |-> TRUE, command |-> command, commandId |-> commandId]

\* the result for a command that JSON.parse returned
Validated(validation, processed, existingCommandIds) ==
  IF ~validation.success THEN validation
  ELSE Deduplicated(validation.command, generateCommandId(validation.command),
                    processed, existingCommandIds)

\* the result for the outcome parsed of JSON.parse
Parsed(parsed, processed, existingCommandIds) ==
  IF ~parsed.ok THEN [success |-> FALSE, error |-> <<"Failed to parse AI command">>]
  ELSE Validated(validateCommand(parsed.obj), processed, existingCommandIds)

\* the body of the while loop for one match: the CommandResult pushed
ParseOne(jsonString, processed, existingCommandIds) ==
  Parsed(JSONParse(jsonString), processed, existingCommandIds)

\* Push recording the identity only of a command the executor has a case
\* for
PushRecordingAdditions(acc, one) ==
  [commands |-> Append(acc.commands, one),
   processed |-> IF one.success /\ one.command.action \in {"add_transaction", "add_debt", "add_borrow"}
                 THEN acc.processed \cup {one.commandId} ELSE acc.processed]

\* results.push(...) and, for a new command, processedCommands.add(commandId)
Push(acc, one) ==
  [commands |-> Append(acc.commands, one),
   processed |-> IF one.success THEN acc.processed \cup {one.commandId} ELSE acc.processed]

\* the while loop from lastIndex = from; acc holds the results pushed so far
\* and the processedCommands set
RECURSIVE ParseFrom(_, _, _, _)
ParseFrom(text, from, acc, existingCommandIds) ==
  LET i == NextMatch(text, from) IN
    IF i = 0 THEN acc
    ELSE ParseFrom(text, LastClose(text, SkipWs(text, i + 1)) + 1,
                   Push(acc, ParseOne(JsonString(text, i), acc.processed, existingCommandIds)),
                   existingCommandIds)

\* parseCommand: the results returned and the processedCommands set it leaves
parseCommand(responseText, processed, existingCommandIds) ==
  ParseFrom(responseText, 1, [commands |-> <<>>, processed |-> processed], existingCommandIds)

(***************************************************************************)
(* Ledger store.  The persisted lists of the signed-in user's namespace:   *)
(* the entries of today's day bucket, the debts and the borrows, each      *)
(* most recent first.                                                      *)
(***************************************************************************)
\* the note member of a stored record: entry.note as given (addEntry), or
\* input.note?.trim() || undefined (addDebt, addBorrow)
NoteOf(input, trimmed) ==
  IF ~Has(input, "note") THEN <<>>
  ELSE IF ~trimmed THEN [note |-> input.note]
  ELSE IF Trim(input.note) = <<>> THEN <<>>
  ELSE [note |-> Trim(input.note)]

\* addEntry: the bucket's entries after adding entry under the fresh id
addEntry(dayEntries, entry, id) ==
  <<[id |-> id, type |-> entry.type, amount |-> round(entry.amount),
     category |-> entry.category] @@ NoteOf(entry, FALSE)>> \o dayEntries

\* addDebt: the debts after adding input under the fresh id on day now
addDebt(debtList, input, id, now) ==
  <<[id |-> id, person |-> Trim(input.person), amount |-> round(input.amount),
     status |-> "unpaid", createdAt |-> now, updatedAt |-> now] @@ NoteOf(input, TRUE)>>
    \o debtList

\* addBorrow: the borrows after adding input under the fresh id on day now
addBorrow(borrowList, input, id, now) ==
  <<[id |-> id, person |-> Trim(input.person), amount |-> round(input.amount),
     status |-> "unpaid", createdAt |-> now, updatedAt |-> now] @@ NoteOf(input, TRUE) @@
    (IF Has(input, "dueDate") THEN [dueDate |-> input.dueDate] ELSE <<>>)>> \o borrowList

\* a status change that reaches every record of the list
setStatusOfEveryRecord(list, id, status, now) ==
  [i \in 1..Len(list) |-> [list[i] EXCEPT !.status = status, !.updatedAt = now]]

\* a status change that also takes the amount of the record to zero
setStatusClearingAmount(list, id, status, now) ==
  [i \in 1..Len(list) |-> IF list[i].id = id
                          THEN [list[i] EXCEPT !.status = status, !.updatedAt = now,
                                               !.amount = 0]
                          ELSE list[i]]

\* setDebtStatus / setBorrowStatus on day now: the list with the status and
\* the updatedAt of the first record of that id set
setStatus(list, id, status, now) ==
  [i \in 1..Len(list) |-> IF list[i].id = id /\ (\A j \in 1..(i - 1) : list[j].id # id)
                          THEN [list[i] EXCEPT !.status = status, !.updatedAt = now]
                          ELSE list[i]]

\* markDebtPaid / markBorrowPaid on day now
markPaid(list, id, now) == setStatus(list, id, "paid", now)

\* the record of the list with identifier id (there is one)
RecordOf(list, id) == list[CHOOSE i \in 1..Len(list) : list[i].id = id]

\* markDebtPaid under the policy that also books the settlement as an income
\* entry of today's bucket
markDebtPaidCreatingIncome(ledger, debtId, now) ==
  [ledger EXCEPT !.debts = markPaid(@, debtId, now),
                 !.entries = addEntry(@, [type |-> "income",
                                          amount |-> RecordOf(ledger.debts, debtId).amount,
                                          category |-> <<79, 116, 104, 101, 114>>], 0)]

\* markDebtPaid, setDebtStatus, markBorrowPaid and setBorrowStatus on the
\* ledger of the namespace: today's entries, the debts and the borrows.  No
\* entry is made (createdIncome: null, createdExpense: null).
markDebtPaid(ledger, debtId, now) == [ledger EXCEPT !.debts = markPaid(@, debtId, now)]

setDebtStatus(ledger, debtId, status, now) ==
  [ledger EXCEPT !.debts = setStatus(@, debtId, status, now)]

markBorrowPaid(ledger, borrowId, now) == [ledger EXCEPT !.borrows = markPaid(@, borrowId, now)]

setBorrowStatus(ledger, borrowId, status, now) ==
  [ledger EXCEPT !.borrows = setStatus(@, borrowId, status, now)]

Amounts(list) == [i \in 1..Len(list) |-> list[i].amount]

\* sum of the amounts of the records of list whose field f has value v
SumWhere(list, f, v) == sum(Amounts(SelectSeq(list, LAMBDA r : r[f] = v)))

\* Totals with the signs of the unpaid debts and the unpaid borrows exchanged
TotalsSignsExchanged(startingBalance0, income, expenses, unpaidDebts, unpaidBorrows) ==
  [income |-> round(income), expenses |-> round(expenses),
   remaining |-> round(subtract(add(subtract(add(startingBalance0, income), expenses),
                                    unpaidDebts), unpaidBorrows))]

\* the object calculateTotals returns, from its four sums
Totals(startingBalance0, income, expenses, unpaidDebts, unpaidBorrows) ==
  [income |-> round(income), expenses |-> round(expenses),
   remaining |-> round(add(subtract(subtract(add(startingBalance0, income), expenses),
                                    unpaidDebts), unpaidBorrows))]

calculateTotals(day, debtList, borrowList) ==
  Totals(day.startingBalance,
         SumWhere(day.entries, "type", "income"), SumWhere(day.entries, "type", "expense"),
         SumWhere(debtList, "status", "unpaid"), SumWhere(borrowList, "status", "unpaid"))

(***************************************************************************)
(* Error classifier and retry policy (AIErrorHandler).  A thrown value is  *)
(* a record with an optional name and an optional message.                 *)
(***************************************************************************)
MAX_RETRIES == 3

\* RETRY_DELAYS read one place further on
RETRY_DELAYS_FROM_SECOND == <<2000, 4000, 4000>>

RETRY_DELAYS == <<1000, 2000, 4000>>

\* String.prototype.includes
Includes(str, sub) ==
  \E i \in 0..(Len(str) - Len(sub)) : SubSeq(str, i + 1, i + Len(sub)) = sub

\* classifyError with the test for 401/403 moved before the one for 429
classifyErrorAuthFirst(error) ==
  IF Has(error, "name") /\ error.name = "NetworkError"
  THEN [code |-> "NETWORK_ERROR", retryable |-> TRUE]
  ELSE IF ~Has(error, "message") THEN [raised |-> "TypeError"]
  ELSE IF Includes(error.message, <<102, 101, 116, 99, 104>>)
  THEN [code |-> "NETWORK_ERROR", retryable |-> TRUE]
  ELSE IF Includes(error.message, <<52, 48, 49>>) \/ Includes(error.message, <<52, 48, 51>>)
  THEN [code |-> "AUTH_ERROR", retryable |-> FALSE]
  ELSE IF Includes(error.message, <<52, 50, 57>>)
          \/ Includes(error.message, <<114, 97, 116, 101, 32, 108, 105, 109, 105, 116>>)
  THEN [code |-> "RATE_LIMITED", retryable |-> TRUE]
  ELSE IF Includes(error.message, <<53, 48, 48>>) \/ Includes(error.message, <<53, 48, 50>>)
          \/ Includes(error.message, <<53, 48, 51>>)
  THEN [code |-> "SERVER_ERROR", retryable |-> TRUE]
  ELSE IF Includes(error.message, <<116, 105, 109, 101, 111, 117, 116>>)
  THEN [code |-> "TIMEOUT_ERROR", retryable |-> TRUE]
  ELSE [code |-> "UNKNOWN_ERROR", retryable |-> FALSE]

\* classifyError: the AIError, or [raised |-> "TypeError"] when reading
\* error.message.includes fails because the thrown value has no message
classifyError(error) ==
  IF Has(error, "name") /\ error.name = "NetworkError"
  THEN [code |-> "NETWORK_ERROR", retryable |-> TRUE]
  ELSE IF ~Has(error, "message") THEN [raised |-> "TypeError"]
  ELSE IF Includes(error.message, <<102, 101, 116, 99, 104>>)
  THEN [code |-> "NETWORK_ERROR", retryable |-> TRUE]
  ELSE IF Includes(error.message, <<52, 50, 57>>)
          \/ Includes(error.message, <<114, 97, 116, 101, 32, 108, 105, 109, 105, 116>>)
  THEN [code |-> "RATE_LIMITED", retryable |-> TRUE]
  ELSE IF Includes(error.message, <<52, 48, 49>>) \/ Includes(error.message, <<52, 48, 51>>)
  THEN [code |-> "AUTH_ERROR", retryable |-> FALSE]
  ELSE IF Includes(error.message, <<53, 48, 48>>) \/ Includes(error.message, <<53, 48, 50>>)
          \/ Includes(error.message, <<53, 48, 51>>)
  THEN [code |-> "SERVER_ERROR", retryable |-> TRUE]
  ELSE IF Includes(error.message, <<116, 105, 109, 101, 111, 117, 116>>)
  THEN [code |-> "TIMEOUT_ERROR", retryable |-> TRUE]
  ELSE [code |-> "UNKNOWN_ERROR", retryable |-> FALSE]

\* Decide without the test of aiError.retryable
DecideIgnoringRetryable(attempt0, aiError) ==
  IF attempt0 = MAX_RETRIES - 1 THEN [next |-> "throw", thrown |-> aiError]
  ELSE [next |-> "sleep", delay |-> RETRY_DELAYS[attempt0 + 1]]

\* the catch block of withRetry after the invocation numbered attempt
\* (0-based) failed with classification aiError
Decide(attempt0, aiError) ==
  IF ~Has(aiError, "code") THEN [next |-> "throw", thrown |-> aiError]
  ELSE IF ~aiError.retryable \/ attempt0 = MAX_RETRIES - 1
  THEN [next |-> "throw", thrown |-> aiError]
  ELSE [next |-> "sleep", delay |-> RETRY_DELAYS[attempt0 + 1]]

\* the catch block after the invocation threw error: rethrow, or sleep and
\* go round the loop again
AfterFailure(attempt0, error) == Decide(attempt0, classifyError(error))

\* values an operation may throw: errors matching one rule, several rules
\* ('rate limit 401', 'timeout 503', 'fetch 429') or none, and a value that
\* is not an Error
ThrownValues ==
  {[name |-> "TypeError", message |-> <<70, 97, 105, 108, 101, 100, 32, 116, 111, 32, 102, 101, 116, 99, 104>>],
   [name |-> "NetworkError"],
   [name |-> "Error", message |-> <<79, 112, 101, 110, 82, 111, 117, 116, 101, 114, 32, 101, 114, 114, 111, 114, 58, 32, 52, 50, 57>>],
   [name |-> "Error", message |-> <<79, 112, 101, 110, 82, 111, 117, 116, 101, 114, 32, 101, 114, 114, 111, 114, 58, 32, 52, 48, 49>>],
   [name |-> "Error", message |-> <<79, 112, 101, 110, 82, 111, 117, 116, 101, 114, 32, 101, 114, 114, 111, 114, 58, 32, 53, 48, 51>>],
   [name |-> "Error", message |-> <<82, 101, 113, 117, 101, 115, 116, 32, 116, 105, 109, 101, 111, 117, 116>>],
   [name |-> "Error", message |-> <<98, 111, 111, 109>>],
   [name |-> "Error", message |-> <<114, 97, 116, 101, 32, 108, 105, 109, 105, 116, 32, 52, 48, 49>>],
   [name |-> "Error", message |-> <<116, 105, 109, 101, 111, 117, 116, 32, 53, 48, 51>>],
   [name |-> "TypeError", message |-> <<102, 101, 116, 99, 104, 32, 52, 50, 57>>],
   [value |-> "a thrown string"]}

\* throw new Error(`Unknown action: ${command.action}`)
UnknownActionError(action) ==
  [name |-> "Error",
   message |-> <<85, 110, 107, 110, 111, 119, 110, 32, 97, 99, 116, 105, 111, 110, 58, 32>> \o Chars(action)]

(***************************************************************************)
(* State                                                                   *)
(***************************************************************************)
VARIABLES
  superAi,                \* AdvisorChat: Super AI mode enabled
  showClearConfirm,       \* AdvisorChat: the clear-chat dialog is open
  phase,                  \* send: "idle", "streaming" or "sleeping" (retry backoff)
  turns,                  \* conversation turns started so far
  response,               \* the text the model streams for this turn's request
  sent,                   \* atoms of response delivered by the current request
  assembled,              \* send: the cumulative buffer
  attempt,                \* withRetry around the stream: the loop counter
  pending,                \* delta callbacks suspended at an await: their results
  processedCommands,      \* AICommandParser.processedCommands
  processedTransactions,  \* AdvisorChat: processedTransactions.current
  messages,               \* AdvisorChat: the chat bubbles
  applied,                \* history: commands applied since the sets were last cleared
  notices,                \* history: kinds of the notices appended in that time
  handed,                 \* history: identities handed to the executor's switch in that time
  startingBalance,        \* today's bucket: starting balance
  entries,                \* today's bucket: entries
  debts,                  \* the debts list
  borrows,                \* the borrows list
  nextId,                 \* the next fresh identifier (crypto.randomUUID)
  today,                  \* the current date, in days since the first
  rPhase,                 \* withRetry alone: "calling", "sleeping", "returned", "thrown"
  rAttempt,               \* withRetry alone: the loop counter
  rLog,                   \* withRetry alone: history of the outcome of each invocation
  rSlept,                 \* withRetry alone: history of the delays slept
  rThrown,                \* withRetry alone: what it threw to its caller
  parses,                 \* parseCommand alone: the calls made, text and results
  store,                  \* storage alone: the browser's localStorage, key to value
  session,                \* storage alone: the user Supabase has authenticated
  storeLog,               \* storage alone: history of the last operation and its effect
  clock,                  \* dates alone: the instant, in thirds of a day since a UTC midnight
  zone,                   \* dates alone: the browser's offset from UTC, in thirds of a day
  dayBuckets,             \* dates alone: the entries of each day bucket
  lastExec,               \* dates alone: history of the last command executed
  batch,                  \* executor alone: history of the results handed to the loop
  validated,              \* a validator alone: history of the last call, input and result
  dispatched,             \* the handlers alone: fts-data-changed events of the last handler
  loading,                \* send alone: AdvisorChat's loading flag
  insights,               \* send alone: AdvisorChat holds an insights summary
  calls,                  \* send alone: the invocations of send, each with its position
  keyAt,                  \* callOpenRouterStream alone: the API key in use, from 1
  connected,              \* callOpenRouterStream alone: the response of that key is being read
  full,                   \* callOpenRouterStream alone: the local full
  deltas,                 \* callOpenRouterStream alone: history of the deltas passed to onDelta
  outcome                 \* callOpenRouterStream alone: pending, resolved with a text, or rejected

chatVars == <<superAi, showClearConfirm, phase, turns, response, sent, assembled, attempt,
              pending, processedCommands, processedTransactions, messages, applied, notices, handed>>

ledgerVars == <<startingBalance, entries, debts, borrows, nextId, today>>

retryVars == <<rPhase, rAttempt, rLog, rSlept, rThrown>>

storeVars == <<store, session, storeLog>>

clockVars == <<clock, zone, dayBuckets, lastExec>>

sendVars == <<loading, insights, calls>>

streamVars == <<keyAt, connected, full, deltas, outcome>>

vars ==
  <<chatVars, ledgerVars, retryVars, parses, storeVars, clockVars, batch, validated, dispatched,
    sendVars, streamVars>>

(***************************************************************************)
(* Bounds and inputs                                                       *)
(***************************************************************************)
MaxTurns == 1
MaxDelta == 3
MaxPending == 2
MaxMessages == 4
MaxParses == 2
MaxEntries == 2
MaxDebts == 1
MaxBorrows == 1
MaxDay == 1
MaxRestreams == 1

\* the texts the model may stream
Responses ==
  {<<"t", "M", "s", "{", "debtAlex", "}", "t">>,
   <<"M", "{", "debtAlex", "}", "M", "{", "debtBo", "}">>,
   <<"M", "{", "debtAlexMeta", "{", "}", "}">>,
   <<"M", "{", "debtAlexNote", "{", "}", "q", "}">>,
   <<"M", "{", "debtAlex", "}", "t", "}">>,
   <<"M", "s", "{", "s", "debtAlexRev", "s", "}">>,
   <<"M", "{", "debtAlexPad", "}">>,
   <<"M", "{", "txnLunch", "}">>,
   <<"M", "{", "borrowBo", "}">>,
   <<"M", "{", "editE1", "}">>,
   <<"M", "{", "delE1", "}">>,
   <<"M", "{", "markD1", "}">>,
   <<"M", "{", "delD1", "}">>,
   <<"M", "{", "delD1", "}", "t">>,
   <<"M", "{", "markB1", "}">>,
   <<"M", "{", "delB1", "}">>,
   <<"M", "{", "frob", "}">>,
   <<"M", "{", "debtZero", "}">>,
   <<"t", "M", "t">>}

\* what fetch throws when the connection fails ("Failed to fetch"), and the
\* error made from a bad HTTP status ("OpenRouter error: 401")
ConnectErrors ==
  {[name |-> "TypeError", message |-> <<70, 97, 105, 108, 101, 100, 32, 116, 111, 32, 102, 101, 116, 99, 104>>],
   [name |-> "Error", message |-> <<79, 112, 101, 110, 82, 111, 117, 116, 101, 114, 32, 101, 114, 114, 111, 114, 58, 32, 52, 48, 49>>]}

\* what reader.read() throws when the connection drops ("network error")
ReadError ==
  [name |-> "TypeError", message |-> <<110, 101, 116, 119, 111, 114, 107, 32, 101, 114, 114, 111, 114>>]

(***************************************************************************)
(* Command executor: the body of the delta callback after parseCommand     *)
(* (send, the for loop over commands).  st holds what the loop reads and   *)
(* writes.                                                                 *)
(***************************************************************************)
\* the bubble and the bookkeeping shared by the three handled cases
\* the detail of the fts-data-changed event that follows an addition
EventDetail(action) ==
  CASE action = "add_transaction" -> "date"
    [] action = "add_debt" -> "debt"
    [] action = "add_borrow" -> "borrow"
    [] OTHER -> "none"

Confirmed(command, commandId, st) ==
  [st EXCEPT !.nextId = @ + 1,
             !.processedTransactions = @ \cup {commandId},
             !.messages = Append(@, [kind |-> "confirm", action |-> command.action,
                                     amount |-> command.amount]),
             !.applied = Append(@, [commandId |-> commandId, command |-> command]),
             !.notices = @ \cup {<<"confirm", command.action>>},
             !.dispatched = Append(@, EventDetail(command.action))]

\* the switch on command.action inside withRetry, and the catch block
\* around it
Dispatch(command, commandId, st) ==
  CASE command.action = "add_transaction" ->
         [Confirmed(command, commandId, st) EXCEPT
            !.entries = addEntry(@, command, st.nextId)]
    [] command.action = "add_debt" ->
         [Confirmed(command, commandId, st) EXCEPT
            !.debts = addDebt(@, command, st.nextId, st.today)]
    [] command.action = "add_borrow" ->
         [Confirmed(command, commandId, st) EXCEPT
            !.borrows = addBorrow(@, command, st.nextId, st.today)]
    [] OTHER ->
         \* default: throw new Error(`Unknown action: ...`).  withRetry
         \* rethrows the classified error, a plain object, so the catch block
         \* reports 'Unknown error'
         IF AfterFailure(0, UnknownActionError(command.action)).next = "throw"
         THEN [st EXCEPT !.messages = Append(@, [kind |-> "execError",
                                                 action |-> command.action,
                                                 error |-> "Unknown error"]),
                         !.notices = @ \cup {<<"execError", command.action>>}]
         ELSE st

\* one iteration of the loop; awaited tells whether it suspended at an await
ExecOne(result, st) ==
  IF ~result.success
  THEN [st EXCEPT !.messages = Append(@, [kind |-> "commandError", error |-> result.error]),
                  !.notices = @ \cup {IF Has(result, "commandId")
                                      THEN <<"duplicate", result.commandId[1]>>
                                      ELSE <<"commandError", "">>},
                  !.awaited = FALSE]
  ELSE IF result.commandId \in st.processedTransactions
  THEN [st EXCEPT !.awaited = FALSE]
  ELSE [Dispatch(result.command, result.commandId, st) EXCEPT
          !.awaited = TRUE, !.handed = Append(@, result.commandId)]

\* a loop that ends at the first result it does not apply
ContinueUntilFailure(st1, rest) ==
  IF st1.awaited /\ Len(st1.applied) > 0 /\ st1.messages[Len(st1.messages)].kind = "confirm"
  THEN [st |-> st1, rest |-> rest]
  ELSE [st |-> st1, rest |-> <<>>]

\* the loop after the iteration that left st1, rest being the results still
\* to process
RECURSIVE RunChain(_, _)
Continue(st1, rest) ==
  IF st1.awaited THEN [st |-> st1, rest |-> rest] ELSE RunChain(rest, st1)

\* the loop from its current result up to its next await: the state it
\* leaves and the results still to process
RunChain(results, st) ==
  IF results = <<>> THEN [st |-> st, rest |-> <<>>]
  ELSE Continue(ExecOne(Head(results), st), Tail(results))

\* deltaToState: copy[copy.length - 1] = the streamed bubble
ReplaceLast(msgs, bubble) ==
  IF msgs = <<>> THEN msgs ELSE [msgs EXCEPT ![Len(msgs)] = bubble]

MaxClock == 5
MaxDated == 2

\* the instants of a day, and the dates the bounded clock can show
ThirdsPerDay == 3

Zones == {0 - 1, 0, 1}

DayKeys == (0 - 1)..((MaxClock + 1) \div ThirdsPerDay)

(***************************************************************************)
(* Initial state: a signed-in user with an empty ledger and an empty chat  *)
(***************************************************************************)
Init ==
  /\ superAi = FALSE
  /\ showClearConfirm = FALSE
  /\ phase = "idle"
  /\ turns = 0
  /\ response = <<>>
  /\ sent = 0
  /\ assembled = <<>>
  /\ attempt = 0
  /\ pending = <<>>
  /\ processedCommands = {}
  /\ processedTransactions = {}
  /\ messages = <<>>
  /\ applied = <<>>
  /\ notices = {}
  /\ handed = <<>>
  /\ startingBalance = 0
  /\ entries = <<>>
  /\ debts = <<>>
  /\ borrows = <<>>
  /\ nextId = 1
  /\ today = 0
  /\ rPhase = "calling"
  /\ rAttempt = 0
  /\ rLog = <<>>
  /\ rSlept = <<>>
  /\ rThrown = [nothing |-> TRUE]
  /\ parses = <<>>
  /\ store = <<>>
  /\ session = "none"
  /\ storeLog = [op |-> "none"]
  /\ clock = 0
  /\ zone = 0
  /\ dayBuckets = [d \in DayKeys |-> <<>>]
  /\ lastExec = [action |-> "none"]
  /\ batch = <<>>
  /\ validated = [call |-> "none"]
  /\ dispatched = <<>>
  /\ loading = FALSE
  /\ insights = FALSE
  /\ calls = <<>>
  /\ keyAt = 1
  /\ connected = FALSE
  /\ full = <<>>
  /\ deltas = <<>>
  /\ outcome = [state |-> "pending"]

(***************************************************************************)
(* AdvisorChat.  A user event or a network event is handled only once the  *)
(* suspended callbacks have run (they resume as microtasks).               *)
(***************************************************************************)
UserBubble(word) == [kind |-> "user", content |-> word]

StreamBubble(text) == [kind |-> "stream", content |-> text]

\* send, input SUDOSHAN
EnableSuperAi ==
  /\ phase = "idle" /\ pending = <<>>
  /\ Len(messages) + 2 <= MaxMessages
  /\ superAi' = TRUE
  /\ messages' = messages \o <<UserBubble("SUDOSHAN"), [kind |-> "superAiEnabled"]>>
  /\ UNCHANGED <<showClearConfirm, phase, turns, response, sent, assembled, attempt, pending,
                 processedCommands, processedTransactions, applied, notices, handed>>
  /\ UNCHANGED <<ledgerVars, retryVars, parses, storeVars, clockVars, batch, validated, dispatched, sendVars, streamVars>>

\* clearChat: the Clear button (enabled during a stream too), or send with
\* input CLEAR
OpenClearConfirm ==
  /\ pending = <<>>
  /\ messages # <<>>
  /\ ~showClearConfirm
  /\ showClearConfirm' = TRUE
  /\ UNCHANGED <<superAi, phase, turns, response, sent, assembled, attempt, pending,
                 processedCommands, processedTransactions, messages, applied, notices, handed>>
  /\ UNCHANGED <<ledgerVars, retryVars, parses, storeVars, clockVars, batch, validated, dispatched, sendVars, streamVars>>

\* the dialog's Cancel button
CancelClearChat ==
  /\ pending = <<>>
  /\ showClearConfirm
  /\ showClearConfirm' = FALSE
  /\ UNCHANGED <<superAi, phase, turns, response, sent, assembled, attempt, pending,
                 processedCommands, processedTransactions, messages, applied, notices, handed>>
  /\ UNCHANGED <<ledgerVars, retryVars, parses, storeVars, clockVars, batch, validated, dispatched, sendVars, streamVars>>

\* confirmClearChat
ConfirmClearChat ==
  /\ pending = <<>>
  /\ showClearConfirm
  /\ messages' = <<>>
  /\ processedTransactions' = {}
  /\ processedCommands' = {}
  /\ showClearConfirm' = FALSE
  /\ applied' = <<>>
  /\ notices' = {}
  /\ handed' = <<>>
  /\ UNCHANGED <<superAi, phase, turns, response, sent, assembled, attempt, pending>>
  /\ UNCHANGED <<ledgerVars, retryVars, parses, storeVars, clockVars, batch, validated, dispatched, sendVars, streamVars>>

\* send, input RESET
SendReset ==
  /\ phase = "idle" /\ pending = <<>>
  /\ Len(messages) + 2 <= MaxMessages
  /\ showClearConfirm' = (showClearConfirm \/ messages # <<>>)
  /\ processedTransactions' = {}
  /\ messages' = messages \o <<UserBubble("RESET"), [kind |-> "chatReset", superAi |-> superAi]>>
  /\ UNCHANGED <<superAi, phase, turns, response, sent, assembled, attempt, pending,
                 processedCommands, applied, notices, handed>>
  /\ UNCHANGED <<ledgerVars, retryVars, parses, storeVars, clockVars, batch, validated, dispatched, sendVars, streamVars>>

\* send with an ordinary question, up to the first await of the stream; r
\* is the text the model is going to stream back
Send(r) ==
  /\ phase = "idle" /\ pending = <<>>
  /\ turns < MaxTurns
  /\ Len(messages) + 2 <= MaxMessages
  /\ processedCommands' = {}
  /\ processedTransactions' = {}
  /\ messages' = messages \o <<UserBubble("question"), StreamBubble(<<>>)>>
  /\ assembled' = <<>>
  /\ response' = r
  /\ sent' = 0
  /\ attempt' = 0
  /\ phase' = "streaming"
  /\ turns' = turns + 1
  /\ applied' = <<>>
  /\ notices' = {}
  /\ handed' = <<>>
  /\ UNCHANGED <<superAi, showClearConfirm, pending>>
  /\ UNCHANGED <<ledgerVars, retryVars, parses, storeVars, clockVars, batch, validated, dispatched, sendVars, streamVars>>

\* Enqueue with the identities recorded only once the commands have run, not
\* at parse time
EnqueueWithoutRecording(parsed) ==
  /\ processedCommands' = processedCommands
  /\ pending' = IF parsed.commands = <<>> THEN pending ELSE Append(pending, parsed.commands)

\* what the callback leaves once parseCommand has returned parsed
Enqueue(parsed) ==
  /\ processedCommands' = parsed.processed
  /\ pending' = IF parsed.commands = <<>> THEN pending ELSE Append(pending, parsed.commands)

\* the callback without the test of superAi
OnDeltaParsingAlways(text) ==
  /\ assembled' = text
  /\ messages' = ReplaceLast(messages, StreamBubble(text))
  /\ Enqueue(parseCommand(text, processedCommands, processedTransactions))

\* the callback on the cumulative buffer text
OnDelta(text) ==
  /\ assembled' = text
  /\ messages' = ReplaceLast(messages, StreamBubble(text))
  /\ IF superAi
     THEN Enqueue(parseCommand(text, processedCommands, processedTransactions))
     ELSE UNCHANGED <<processedCommands, pending>>

\* the delta callback up to its first await: deltaToState, then parseCommand
\* on the cumulative buffer when Super AI is on; n atoms arrive
StreamDelta(n) ==
  /\ phase = "streaming"
  /\ sent + n <= Len(response)
  /\ Len(pending) < MaxPending
  /\ sent' = sent + n
  /\ OnDelta(assembled \o SubSeq(response, sent + 1, sent + n))
  /\ UNCHANGED <<superAi, showClearConfirm, phase, turns, response, attempt,
                 processedTransactions, applied, notices, handed>>
  /\ UNCHANGED <<ledgerVars, retryVars, parses, storeVars, clockVars, batch, validated, dispatched, sendVars, streamVars>>

\* what the resumed callback leaves: out is the outcome of its loop
Resume(out) ==
  /\ messages' = out.st.messages
  /\ processedTransactions' = out.st.processedTransactions
  /\ entries' = out.st.entries
  /\ debts' = out.st.debts
  /\ borrows' = out.st.borrows
  /\ nextId' = out.st.nextId
  /\ applied' = out.st.applied
  /\ notices' = out.st.notices
  /\ handed' = out.st.handed
  /\ pending' = IF out.rest = <<>> THEN Tail(pending) ELSE Append(Tail(pending), out.rest)

\* the oldest suspended callback resumes and runs its loop up to the next
\* await
RunCallback ==
  /\ pending # <<>>
  /\ Resume(RunChain(Head(pending),
                     [messages |-> messages, processedTransactions |-> processedTransactions,
                      entries |-> entries, debts |-> debts, borrows |-> borrows,
                      nextId |-> nextId, today |-> today, applied |-> applied,
                      notices |-> notices, handed |-> handed, dispatched |-> <<>>,
                      awaited |-> FALSE]))
  /\ UNCHANGED <<superAi, showClearConfirm, phase, turns, response, sent, assembled, attempt,
                 processedCommands, startingBalance, today>>
  /\ UNCHANGED <<retryVars, parses, storeVars, clockVars, batch, validated, dispatched, sendVars, streamVars>>

\* the request fails before any delta (fetch rejects, or the HTTP status is
\* an error) and, the user having one API key, callOpenRouterStream throws
\* e: withRetry rethrows (send ends through its finally block) or sleeps
ConnectFail(e) ==
  /\ phase = "streaming" /\ pending = <<>>
  /\ sent = 0
  /\ phase' = IF AfterFailure(attempt, e).next = "sleep" THEN "sleeping" ELSE "idle"
  /\ UNCHANGED <<superAi, showClearConfirm, turns, response, sent, assembled, attempt, pending,
                 processedCommands, processedTransactions, messages, applied, notices, handed>>
  /\ UNCHANGED <<ledgerVars, retryVars, parses, storeVars, clockVars, batch, validated, dispatched, sendVars, streamVars>>

\* reader.read() rejects in the middle of the stream (a rejection after the
\* last delta leaves the state StreamDone leaves)
ReadFail ==
  /\ phase = "streaming" /\ pending = <<>>
  /\ sent < Len(response)
  /\ phase' = IF AfterFailure(attempt, ReadError).next = "sleep" THEN "sleeping" ELSE "idle"
  /\ UNCHANGED <<superAi, showClearConfirm, turns, response, sent, assembled, attempt, pending,
                 processedCommands, processedTransactions, messages, applied, notices, handed>>
  /\ UNCHANGED <<ledgerVars, retryVars, parses, storeVars, clockVars, batch, validated, dispatched, sendVars, streamVars>>

\* RetryWake with the per-turn clearing of the two processed sets done again
\* at each invocation
RetryWakeClearing ==
  /\ phase = "sleeping" /\ pending = <<>>
  /\ attempt' = attempt + 1
  /\ sent' = 0
  /\ phase' = "streaming"
  /\ processedCommands' = {}
  /\ processedTransactions' = {}
  /\ UNCHANGED <<superAi, showClearConfirm, turns, response, assembled, pending,
                 messages, applied, notices, handed>>
  /\ UNCHANGED <<ledgerVars, retryVars, parses, storeVars, clockVars, batch, validated, dispatched, sendVars, streamVars>>

\* the backoff ends: the next invocation streams the response again into the
\* same buffer
RetryWake ==
  /\ phase = "sleeping" /\ pending = <<>>
  /\ attempt' = attempt + 1
  /\ sent' = 0
  /\ phase' = "streaming"
  /\ UNCHANGED <<superAi, showClearConfirm, turns, response, assembled, pending,
                 processedCommands, processedTransactions, messages, applied, notices, handed>>
  /\ UNCHANGED <<ledgerVars, retryVars, parses, storeVars, clockVars, batch, validated, dispatched, sendVars, streamVars>>

\* the stream ends ([DONE]): withRetry returns and send finishes
StreamDone ==
  /\ phase = "streaming" /\ pending = <<>>
  /\ sent = Len(response)
  /\ phase' = "idle"
  /\ UNCHANGED <<superAi, showClearConfirm, turns, response, sent, assembled, attempt, pending,
                 processedCommands, processedTransactions, messages, applied, notices, handed>>
  /\ UNCHANGED <<ledgerVars, retryVars, parses, storeVars, clockVars, batch, validated, dispatched, sendVars, streamVars>>

Next ==
  \/ EnableSuperAi
  \/ OpenClearConfirm
  \/ CancelClearChat
  \/ ConfirmClearChat
  \/ SendReset
  \/ \E r \in Responses : Send(r)
  \/ \E n \in 1..MaxDelta : StreamDelta(n)
  \/ RunCallback
  \/ \E e \in ConnectErrors : ConnectFail(e)
  \/ ReadFail
  \/ RetryWake
  \/ StreamDone

Spec == Init /\ [][Next]_vars

(***************************************************************************)
(* A turn whose stream breaks part-way with an error that withRetry takes  *)
(* as retryable or not, the user leaving the chat alone meanwhile.  The    *)
(* retried request streams the same response into the same buffer.         *)
(***************************************************************************)
\* what reader.read() may reject with; the message is the runtime's
ReadErrors ==
  {ReadError,
   [name |-> "TypeError", message |-> <<70, 97, 105, 108, 101, 100, 32, 116, 111, 32, 102, 101, 116, 99, 104>>]}

\* the responses streamed in such a turn
RestreamResponses ==
  {<<"t", "M", "s", "{", "debtAlex", "}", "t">>,
   <<"M", "{", "debtAlex", "}", "M", "{", "debtBo", "}">>,
   <<"M", "{", "txnLunch", "}", "t", "t">>}

\* reader.read() rejects with e after some deltas and before the last:
\* callOpenRouterStream throws e, withRetry rethrows or sleeps
StreamBreak(e) ==
  /\ phase = "streaming" /\ pending = <<>>
  /\ 0 < sent /\ sent < Len(response)
  /\ attempt < MaxRestreams
  /\ phase' = IF AfterFailure(attempt, e).next = "sleep" THEN "sleeping" ELSE "idle"
  /\ UNCHANGED <<superAi, showClearConfirm, turns, response, sent, assembled, attempt, pending,
                 processedCommands, processedTransactions, messages, applied, notices, handed>>
  /\ UNCHANGED <<ledgerVars, retryVars, parses, storeVars, clockVars, batch, validated, dispatched, sendVars, streamVars>>

NextRestream ==
  \/ EnableSuperAi
  \/ \E r \in RestreamResponses : Send(r)
  \/ \E n \in 1..MaxDelta : StreamDelta(n)
  \/ RunCallback
  \/ \E e \in ReadErrors : StreamBreak(e)
  \/ RetryWake
  \/ StreamDone

SpecRestream == Init /\ [][NextRestream]_vars

(***************************************************************************)
(* withRetry on its own: the operation is the environment's, and returns   *)
(* or throws one of ThrownValues at each invocation.  The throw after the  *)
(* for loop is unreachable: the third failure is rethrown inside the loop. *)
(***************************************************************************)
\* what withRetry does after the decision of its catch block
Caught(decision) ==
  /\ rPhase' = IF decision.next = "sleep" THEN "sleeping" ELSE "thrown"
  /\ rSlept' = IF decision.next = "sleep" THEN Append(rSlept, decision.delay) ELSE rSlept
  /\ rThrown' = IF decision.next = "throw" THEN decision.thrown ELSE rThrown

\* await operation() returns: withRetry returns the result
RetryReturn ==
  /\ rPhase = "calling" /\ rAttempt < MAX_RETRIES
  /\ rLog' = Append(rLog, [kind |-> "returned"])
  /\ rPhase' = "returned"
  /\ UNCHANGED <<rAttempt, rSlept, rThrown, chatVars, ledgerVars, parses, storeVars, clockVars, batch, validated, dispatched, sendVars, streamVars>>

\* await operation() throws e
RetryThrow(e) ==
  /\ rPhase = "calling" /\ rAttempt < MAX_RETRIES
  /\ rLog' = Append(rLog, [kind |-> "threw", error |-> e])
  /\ Caught(AfterFailure(rAttempt, e))
  /\ UNCHANGED <<rAttempt, chatVars, ledgerVars, parses, storeVars, clockVars, batch, validated, dispatched, sendVars, streamVars>>

\* the sleep ends: attempt++ and the loop goes round
RetrySleepDone ==
  /\ rPhase = "sleeping"
  /\ rAttempt' = rAttempt + 1
  /\ rPhase' = "calling"
  /\ UNCHANGED <<rLog, rSlept, rThrown, chatVars, ledgerVars, parses, storeVars, clockVars, batch, validated, dispatched, sendVars, streamVars>>

NextRetry ==
  \/ RetryReturn
  \/ \E e \in ThrownValues : RetryThrow(e)
  \/ RetrySleepDone

SpecRetry == Init /\ [][NextRetry]_vars

(***************************************************************************)
(* The ledger store on its own, driven by the dashboard and the debts and  *)
(* borrows views.                                                          *)
(***************************************************************************)
\* Number(startingBalanceInput) || 0: any number, not rounded
Balances == {0, 100000, 0 - 5005}

EntryInputs ==
  {[type |-> "income", amount |-> 50000, category |-> <<83, 97, 108, 97, 114, 121>>],
   [type |-> "expense", amount |-> 20000, category |-> <<70, 111, 111, 100>>],
   [type |-> "expense", amount |-> 1005, category |-> <<70, 111, 111, 100>>]}

DebtInputs ==
  {[person |-> <<65, 108, 101, 120>>, amount |-> 30000],
   [person |-> <<66, 111>>, amount |-> 1005]}

BorrowInputs == {[person |-> <<66, 111>>, amount |-> 10000]}

\* handleSetStartingBalance
SetStartingBalance(v) ==
  /\ startingBalance # v
  /\ startingBalance' = v
  /\ UNCHANGED <<entries, debts, borrows, nextId, today, chatVars, retryVars, parses, storeVars, clockVars, batch, validated, dispatched, sendVars, streamVars>>

\* handleAddEntry: addEntry on today's bucket
AddEntry(e) ==
  /\ Len(entries) < MaxEntries
  /\ entries' = addEntry(entries, e, nextId)
  /\ nextId' = nextId + 1
  /\ UNCHANGED <<startingBalance, debts, borrows, today, chatVars, retryVars, parses, storeVars, clockVars, batch, validated, dispatched, sendVars, streamVars>>

\* the debts view: addDebt
AddDebt(d) ==
  /\ Len(debts) < MaxDebts
  /\ debts' = addDebt(debts, d, nextId, today)
  /\ nextId' = nextId + 1
  /\ UNCHANGED <<startingBalance, entries, borrows, today, chatVars, retryVars, parses, storeVars, clockVars, batch, validated, dispatched, sendVars, streamVars>>

\* the borrows view: addBorrow
AddBorrow(b) ==
  /\ Len(borrows) < MaxBorrows
  /\ borrows' = addBorrow(borrows, b, nextId, today)
  /\ nextId' = nextId + 1
  /\ UNCHANGED <<startingBalance, entries, debts, today, chatVars, retryVars, parses, storeVars, clockVars, batch, validated, dispatched, sendVars, streamVars>>

\* the debts view: markDebtPaid, or setDebtStatus back to unpaid
SetDebtStatus(i, status) ==
  /\ i \in 1..Len(debts)
  /\ debts[i].status # status
  /\ debts' = setStatus(debts, debts[i].id, status, today)
  /\ UNCHANGED <<startingBalance, entries, borrows, nextId, today, chatVars, retryVars, parses, storeVars, clockVars, batch, validated, dispatched, sendVars, streamVars>>

\* the borrows view: markBorrowPaid, or setBorrowStatus back to unpaid
SetBorrowStatus(i, status) ==
  /\ i \in 1..Len(borrows)
  /\ borrows[i].status # status
  /\ borrows' = setStatus(borrows, borrows[i].id, status, today)
  /\ UNCHANGED <<startingBalance, entries, debts, nextId, today, chatVars, retryVars, parses, storeVars, clockVars, batch, validated, dispatched, sendVars, streamVars>>

\* midnight passes: getDayData of the new date finds no bucket and no
\* stored daily balance
NextDay ==
  /\ today < MaxDay
  /\ today' = today + 1
  /\ entries' = <<>>
  /\ startingBalance' = 0
  /\ UNCHANGED <<debts, borrows, nextId, chatVars, retryVars, parses, storeVars, clockVars, batch, validated, dispatched, sendVars, streamVars>>

NextLedger ==
  \/ \E v \in Balances : SetStartingBalance(v)
  \/ \E e \in EntryInputs : AddEntry(e)
  \/ \E d \in DebtInputs : AddDebt(d)
  \/ \E b \in BorrowInputs : AddBorrow(b)
  \/ \E i \in 1..MaxDebts, status \in {"paid", "unpaid"} : SetDebtStatus(i, status)
  \/ \E i \in 1..MaxBorrows, status \in {"paid", "unpaid"} : SetBorrowStatus(i, status)
  \/ NextDay

SpecLedger == Init /\ [][NextLedger]_vars

(***************************************************************************)
(* parseCommand on its own: a caller parses texts one after another.       *)
(***************************************************************************)
\* the texts parsed: every buffer a stream of one of Responses goes through
ParseTexts == UNION {{SubSeq(r, 1, k) : k \in 1..Len(r)} : r \in Responses}

\* the identities of the commands parsed successfully so far
RECURSIVE SuccessIds(_)
SuccessIds(results) ==
  IF results = <<>> THEN {}
  ELSE (IF Head(results).success THEN {Head(results).commandId} ELSE {}) \cup
       SuccessIds(Tail(results))

KnownIds == UNION {SuccessIds(parses[i].commands) : i \in 1..Len(parses)}

\* what a call leaves: the record of the call, and the processed set
Record(text, existingCommandIds, parsed) ==
  /\ parses' = Append(parses, [text |-> text, existing |-> existingCommandIds,
                               before |-> processedCommands, commands |-> parsed.commands])
  /\ processedCommands' = parsed.processed

\* AICommandParser.parseCommand(text, existingCommandIds)
ParseCall(text, existingCommandIds) ==
  /\ Len(parses) < MaxParses
  /\ Record(text, existingCommandIds,
            parseCommand(text, processedCommands, existingCommandIds))
  /\ UNCHANGED <<superAi, showClearConfirm, phase, turns, response, sent, assembled, attempt,
                 pending, processedTransactions, messages, applied, notices, handed>>
  /\ UNCHANGED <<ledgerVars, retryVars, storeVars, clockVars, batch, validated, dispatched, sendVars, streamVars>>

\* AICommandParser.clearProcessedCommands()
ClearProcessedCommands ==
  /\ processedCommands # {}
  /\ processedCommands' = {}
  /\ UNCHANGED <<superAi, showClearConfirm, phase, turns, response, sent, assembled, attempt,
                 pending, processedTransactions, messages, applied, notices, handed>>
  /\ UNCHANGED <<ledgerVars, retryVars, parses, storeVars, clockVars, batch, validated, dispatched, sendVars, streamVars>>

NextParse ==
  \/ \E text \in ParseTexts, existingCommandIds \in {{}, KnownIds} :
       ParseCall(text, existingCommandIds)
  \/ ClearProcessedCommands

SpecParse == Init /\ [][NextParse]_vars

(***************************************************************************)
(* storage on its own: localStorage shared by the users of one browser.    *)
(* A key is the sequence of the pieces it is concatenated from; a user id  *)
(* that passes the UUID test of currentUserNs is one piece.                *)
(***************************************************************************)
MaxStoreDates == 1
MaxStored == 1

Users == {"A", "B"}

\* a stored identifier that fails the length or the UUID test
Malformed == "bad"

DateNames == <<"d1", "d2", "d3">>

Dates == {DateNames[i] : i \in 1..MaxStoreDates}

CURRENT_USER_ID == <<"current_user_id">>

DAILY_BAL_PREFIX == "daily_balance_"

DAY_DATA_PREFIX == "day_data_"

DEBTS_KEY == "debts_v1"

BORROWS_KEY == "borrows_v1"

\* localStorage.setItem, removeItem, clear
setItem(st, k, v) == [x \in DOMAIN st \cup {k} |-> IF x = k THEN v ELSE st[x]]

removeItem(st, k) == [x \in DOMAIN st \ {k} |-> st[x]]

removeItems(st, ks) == [x \in DOMAIN st \ ks |-> st[x]]

clear == <<>>

\* key.startsWith(prefix)
startsWith(k, prefix) == Len(prefix) <= Len(k) /\ SubSeq(k, 1, Len(prefix)) = prefix

\* the user whose namespace a key lies in, "none" for a key outside them all
Owner(k) == IF Len(k) >= 3 /\ k[1] = "user_" THEN k[2] ELSE "none"

StoredUserId(st) == IF CURRENT_USER_ID \in DOMAIN st THEN st[CURRENT_USER_ID] ELSE "missing"

\* currentUserNs(): the namespace, and the storage it leaves.  An identifier
\* that is missing or malformed clears the storage and yields the empty
\* namespace, with which the calling operation goes on.
currentUserNs(st) ==
  IF StoredUserId(st) \in Users
  THEN [ns |-> <<"user_", StoredUserId(st), "_">>, store |-> st]
  ELSE [ns |-> <<>>, store |-> clear]

\* getStartingBalance(dateKey) ?? 0
StartingBalanceOr0(n, dateKey) ==
  IF n.ns \o <<DAILY_BAL_PREFIX, dateKey>> \in DOMAIN n.store
  THEN n.store[n.ns \o <<DAILY_BAL_PREFIX, dateKey>>]
  ELSE 0

\* getDayData(dateKey), the namespace resolved
DayDataIn(n, dateKey) ==
  IF n.ns \o <<DAY_DATA_PREFIX, dateKey>> \in DOMAIN n.store
  THEN n.store[n.ns \o <<DAY_DATA_PREFIX, dateKey>>]
  ELSE [date |-> dateKey, startingBalance |-> StartingBalanceOr0(n, dateKey), entries |-> <<>>]

getDayData(st, dateKey) == DayDataIn(currentUserNs(st), dateKey)

\* getDebts() and getBorrows(), the namespace resolved
ListIn(n, name) == IF n.ns \o <<name>> \in DOMAIN n.store THEN n.store[n.ns \o <<name>>] ELSE <<>>

getDebts(st) == ListIn(currentUserNs(st), DEBTS_KEY)

getBorrows(st) == ListIn(currentUserNs(st), BORROWS_KEY)

\* getHistoryDates(): the dates of the day buckets of the namespace (as a set)
HistoryIn(n) ==
  {k[Len(k)] : k \in {x \in DOMAIN n.store :
                        /\ Len(x) = Len(n.ns) + 2
                        /\ startsWith(x, n.ns \o <<DAY_DATA_PREFIX>>)}}

getHistoryDates(st) == IF DOMAIN st = {} THEN {} ELSE HistoryIn(currentUserNs(st))

\* setStartingBalance(dateKey, amount)
SetStartingBalanceIn(n, dateKey, amount) ==
  setItem(n.store, n.ns \o <<DAILY_BAL_PREFIX, dateKey>>, amount)

setStartingBalance(st, dateKey, amount) == SetStartingBalanceIn(currentUserNs(st), dateKey, amount)

\* addEntry(dateKey, entry): getDayData, unshift, saveDayData
AddEntryIn(n, dateKey, entry) ==
  setItem(n.store, n.ns \o <<DAY_DATA_PREFIX, dateKey>>,
          [DayDataIn(n, dateKey) EXCEPT !.entries = <<entry>> \o @])

storeEntry(st, dateKey, entry) == AddEntryIn(currentUserNs(st), dateKey, entry)

\* addDebt(input) and addBorrow(input): read the list, unshift, save
AddToListIn(n, name, item) == setItem(n.store, n.ns \o <<name>>, <<item>> \o ListIn(n, name))

storeDebt(st, item) == AddToListIn(currentUserNs(st), DEBTS_KEY, item)

storeBorrow(st, item) == AddToListIn(currentUserNs(st), BORROWS_KEY, item)

\* eraseAllData(): the keys that start with the namespace and a bucket
\* prefix, then the two lists of the namespace
ErasedKeys(n) ==
  {k \in DOMAIN n.store : \/ startsWith(k, n.ns \o <<DAILY_BAL_PREFIX>>)
                          \/ startsWith(k, n.ns \o <<DAY_DATA_PREFIX>>)}
    \cup {n.ns \o <<DEBTS_KEY>>, n.ns \o <<BORROWS_KEY>>}

\* an eraseAllData() that matches the bucket prefixes without the namespace
eraseAllDataOfEveryUser(st) ==
  removeItems(st, {k \in DOMAIN st : k[Len(k)] \in {DEBTS_KEY, BORROWS_KEY}
                                      \/ (Len(k) >= 2 /\ k[Len(k) - 1] \in {DAILY_BAL_PREFIX, DAY_DATA_PREFIX})})

\* an eraseAllData() that removes the buckets and leaves the two lists
eraseAllDataKeepingLists(st) ==
  removeItems(currentUserNs(st).store,
              ErasedKeys(currentUserNs(st))
                \ {currentUserNs(st).ns \o <<DEBTS_KEY>>, currentUserNs(st).ns \o <<BORROWS_KEY>>})

eraseAllData(st) == removeItems(currentUserNs(st).store, ErasedKeys(currentUserNs(st)))

\* validateUserSession(): storage is cleared unless the authenticated user
\* is the stored one
validateUserSession(st, user) ==
  IF user = "none" \/ StoredUserId(st) # user THEN clear ELSE st

\* performFullSync(userId), its effect on storage: cleared on a stored
\* identifier other than userId, else read through the namespace
performFullSync(st, userId) ==
  IF StoredUserId(st) # userId THEN clear ELSE currentUserNs(st).store

\* the effect of an operation, for the history
Removed(before, after) == DOMAIN before \ DOMAIN after

Written(before, after) ==
  {k \in DOMAIN after : k \notin DOMAIN before \/ before[k] # after[k]}

Operate(op, after) ==
  /\ store' = after
  /\ storeLog' = [op |-> op, actor |-> session, stored |-> StoredUserId(store),
                  removed |-> Removed(store, after), written |-> Written(store, after)]
  /\ UNCHANGED <<session, chatVars, ledgerVars, retryVars, parses, clockVars, batch, validated, dispatched, sendVars, streamVars>>

\* useSupabaseAuth: a session for user arrives, its id is stored
AuthChange(user) ==
  /\ session # user
  /\ session' = user
  /\ store' = setItem(store, CURRENT_USER_ID, user)
  /\ storeLog' = [op |-> "auth"]
  /\ UNCHANGED <<chatVars, ledgerVars, retryVars, parses, clockVars, batch, validated, dispatched, sendVars, streamVars>>

\* the stored identifier is removed or overwritten from outside the ledger
\* (site data edited, another script of the origin)
LoseUserId(value) ==
  /\ StoredUserId(store) \in Users
  /\ store' = IF value = "missing" THEN removeItem(store, CURRENT_USER_ID)
              ELSE setItem(store, CURRENT_USER_ID, value)
  /\ storeLog' = [op |-> "environment"]
  /\ UNCHANGED <<session, chatVars, ledgerVars, retryVars, parses, clockVars, batch, validated, dispatched, sendVars, streamVars>>

StoreStartingBalance(dateKey) ==
  /\ session \in Users
  /\ Operate("setStartingBalance", setStartingBalance(store, dateKey, 5))

StoreEntry(dateKey) ==
  /\ session \in Users
  /\ Len(getDayData(store, dateKey).entries) < MaxStored
  /\ Operate("addEntry", storeEntry(store, dateKey, "entry"))

StoreDebt ==
  /\ session \in Users
  /\ Len(getDebts(store)) < MaxStored
  /\ Operate("addDebt", storeDebt(store, "debt"))

StoreBorrow ==
  /\ session \in Users
  /\ Len(getBorrows(store)) < MaxStored
  /\ Operate("addBorrow", storeBorrow(store, "borrow"))

EraseAllData ==
  /\ session \in Users
  /\ Operate("eraseAllData", eraseAllData(store))

ValidateUserSession ==
  /\ session \in Users
  /\ Operate("validateUserSession", validateUserSession(store, session))

PerformFullSync ==
  /\ session \in Users
  /\ Operate("performFullSync", performFullSync(store, session))

NextStore ==
  \/ \E user \in Users : AuthChange(user)
  \/ \E value \in {"missing", Malformed} : LoseUserId(value)
  \/ \E dateKey \in Dates : StoreStartingBalance(dateKey)
  \/ \E dateKey \in Dates : StoreEntry(dateKey)
  \/ StoreDebt
  \/ StoreBorrow
  \/ EraseAllData
  \/ ValidateUserSession
  \/ PerformFullSync

SpecStore == Init /\ [][NextStore]_vars

(***************************************************************************)
(* The day buckets in storage, their entries carrying identifiers, under   *)
(* addEntry, setStartingBalance and deleteEntry of a signed-in user.       *)
(***************************************************************************)
MaxEntryIds == 2

EntryIds == 1..MaxEntryIds

\* the identifiers of the entries of a bucket
IdsOf(day) == {day.entries[i].id : i \in 1..Len(day.entries)}

\* the identifiers of the entries of every stored bucket
StoredEntryIds(st) ==
  UNION {IdsOf(st[k]) : k \in {x \in DOMAIN st : Len(x) >= 2 /\ x[Len(x) - 1] = DAY_DATA_PREFIX}}

\* deleteEntry(dateKey, entryId): getDayData, filter, saveDayData
DeleteEntryIn(n, dateKey, entryId) ==
  setItem(n.store, n.ns \o <<DAY_DATA_PREFIX, dateKey>>,
          [DayDataIn(n, dateKey) EXCEPT !.entries = SelectSeq(@, LAMBDA e : e.id # entryId)])

removeEntry(st, dateKey, entryId) == DeleteEntryIn(currentUserNs(st), dateKey, entryId)

\* addEntry with the identifier crypto.randomUUID() returns
StoreEntryWithId(dateKey, id) ==
  /\ session \in Users
  /\ id \notin StoredEntryIds(store)
  /\ Operate("addEntry", storeEntry(store, dateKey, [id |-> id]))

\* deleteEntry on any date and identifier; the history keeps what the call
\* found and the dates getHistoryDates() returned before it
DeleteEntry(dateKey, entryId) ==
  /\ session \in Users
  /\ store' = removeEntry(store, dateKey, entryId)
  /\ storeLog' = [op |-> "deleteEntry",
                  found |-> entryId \in IdsOf(getDayData(store, dateKey)),
                  persisted |-> currentUserNs(store).ns \o <<DAY_DATA_PREFIX, dateKey>>
                                  \in DOMAIN store,
                  datesBefore |-> getHistoryDates(store),
                  removed |-> Removed(store, removeEntry(store, dateKey, entryId)),
                  written |-> Written(store, removeEntry(store, dateKey, entryId))]
  /\ UNCHANGED <<session, chatVars, ledgerVars, retryVars, parses, clockVars, batch, validated,
                 dispatched, sendVars, streamVars>>

NextBucket ==
  \/ \E user \in Users : AuthChange(user)
  \/ \E dateKey \in Dates : StoreStartingBalance(dateKey)
  \/ \E dateKey \in Dates, id \in EntryIds : StoreEntryWithId(dateKey, id)
  \/ \E dateKey \in Dates, id \in EntryIds : DeleteEntry(dateKey, id)

SpecBucket == Init /\ [][NextBucket]_vars

(***************************************************************************)
(* Dates on their own: the chat's executor against the clock.  The chat    *)
(* takes its date from the UTC rendering of the instant, the rest of the   *)
(* app from the browser's local calendar.                                  *)
(***************************************************************************)
\* AdvisorChat getCurrentDateString(): new Date().toISOString().slice(0, 10)
getCurrentDateString(instant) == instant \div ThirdsPerDay

\* DateUtils.formatDate(new Date()): getFullYear, getMonth, getDate
formatDate(instant, offset) == (instant + offset) \div ThirdsPerDay

\* add_transaction commands as the parser hands them over, with and without
\* a date member
DatedCommands ==
  {[action |-> "add_transaction", type |-> "expense", amount |-> 12500,
    category |-> <<70, 111, 111, 100>>]}
  \cup {[action |-> "add_transaction", type |-> "income", amount |-> 50000,
         category |-> <<83, 97, 108, 97, 114, 121>>, date |-> d] : d \in DayKeys}

RECURSIVE CountEntries(_, _)
CountEntries(buckets, days) ==
  IF days = {} THEN 0
  ELSE Len(buckets[CHOOSE d \in days : TRUE])
         + CountEntries(buckets, days \ {CHOOSE d \in days : TRUE})

\* send, case "add_transaction": addEntry(dateKey, ...) with
\* dateKey = getCurrentDateString()
ExecAddTransaction(command) ==
  /\ CountEntries(dayBuckets, DayKeys) < MaxDated
  /\ dayBuckets' = [dayBuckets EXCEPT ![getCurrentDateString(clock)] =
                      addEntry(@, command, CountEntries(dayBuckets, DayKeys) + 1)]
  /\ lastExec' = [action |-> command.action, command |-> command,
                  dateKey |-> getCurrentDateString(clock),
                  today |-> formatDate(clock, zone), before |-> dayBuckets]
  /\ UNCHANGED <<clock, zone, chatVars, ledgerVars, retryVars, parses, storeVars, batch, validated, dispatched, sendVars, streamVars>>

\* time passes
Tick ==
  /\ clock < MaxClock
  /\ clock' = clock + 1
  /\ UNCHANGED <<zone, dayBuckets, lastExec, chatVars, ledgerVars, retryVars, parses, storeVars, batch, validated, dispatched, sendVars, streamVars>>

\* the browser runs in the time zone of the given offset
SetZone(offset) ==
  /\ zone # offset
  /\ zone' = offset
  /\ UNCHANGED <<clock, dayBuckets, lastExec, chatVars, ledgerVars, retryVars, parses, storeVars, batch, validated, dispatched, sendVars, streamVars>>

NextClock ==
  \/ \E command \in DatedCommands : ExecAddTransaction(command)
  \/ Tick
  \/ \E offset \in Zones : SetZone(offset)

SpecClock == Init /\ [][NextClock]_vars

(***************************************************************************)
(* The executor's loop on its own: a list of CommandResults is handed to   *)
(* the for loop of the delta callback.                                     *)
(***************************************************************************)
MaxBatch == 3

\* the CommandResult the parser makes of one command block
ResultOf(body) == parseCommand(<<"M", "{", body, "}">>, {}, {}).commands[1]

\* two applicable commands, a command that fails validation, and a valid
\* command the executor's switch has no case for
BatchItems == {ResultOf(body) : body \in {"txnLunch", "debtAlex", "debtZero", "editE1"}}

Batches == UNION {[1..n -> BatchItems] : n \in 1..MaxBatch}

\* for (const commandResult of commands): the loop starts on results
HandBatch(results) ==
  /\ batch = <<>>
  /\ batch' = results
  /\ pending' = <<results>>
  /\ UNCHANGED <<superAi, showClearConfirm, phase, turns, response, sent, assembled, attempt,
                 processedCommands, processedTransactions, messages, applied, notices, handed>>
  /\ UNCHANGED <<ledgerVars, retryVars, parses, storeVars, clockVars, validated, dispatched, sendVars, streamVars>>

NextBatch ==
  \/ \E results \in Batches : HandBatch(results)
  \/ RunCallback

SpecBatch == Init /\ [][NextBatch]_vars

(***************************************************************************)
(* validateAmount on its own                                               *)
(***************************************************************************)
MaxAmountLen == 3

\* '0', '5', '.', '-', ' ', ','
AmountChars == {48, 53, 46, 45, 32, 44}

\* every text of up to MaxAmountLen of these characters, and the texts
\* "0", "-5", "12.345", "1000000000", "999999999.99", "999999999.994"
\* "999999999.9900000001", "999999999.990001", "RM 1,234.50", "0.001", "0.0001", "5."
\* "1e3", " 7 ", "00012.5", "RM"
AmountInputs ==
  UNION {[1..n -> AmountChars] : n \in 1..MaxAmountLen}
  \cup {<<48>>,
        <<45, 53>>,
        <<49, 50, 46, 51, 52, 53>>,
        <<49, 48, 48, 48, 48, 48, 48, 48, 48, 48>>,
        <<57, 57, 57, 57, 57, 57, 57, 57, 57, 46, 57, 57>>,
        <<57, 57, 57, 57, 57, 57, 57, 57, 57, 46, 57, 57, 52>>,
        <<57, 57, 57, 57, 57, 57, 57, 57, 57, 46, 57, 57, 48, 48, 48, 48, 48, 48, 48, 49>>,
        <<57, 57, 57, 57, 57, 57, 57, 57, 57, 46, 57, 57, 48, 48, 48, 49>>,
        <<57, 57, 57, 57, 57, 57, 57, 57, 57, 46, 57, 57, 48, 48, 48, 48, 49>>,
        <<57, 57, 57, 57, 57, 57, 57, 57, 57, 46, 57, 57, 48, 48, 48, 48, 48, 49>>,
        <<82, 77, 32, 49, 44, 50, 51, 52, 46, 53, 48>>,
        <<48, 46, 48, 48, 49>>,
        <<48, 46, 48, 48, 48, 49>>,
        <<53, 46>>,
        <<49, 101, 51>>,
        <<32, 55, 32>>,
        <<48, 48, 48, 49, 50, 46, 53>>,
        <<82, 77>>}

\* InputValidator.validateAmount(input)
ValidateAmountCall(input) ==
  /\ validated' = [call |-> "validateAmount", input |-> input,
                   result |-> validateAmountParts(input)]
  /\ UNCHANGED <<chatVars, ledgerVars, retryVars, parses, storeVars, clockVars, batch, dispatched, sendVars, streamVars>>

NextAmount == \E input \in AmountInputs : ValidateAmountCall(input)

SpecAmount == Init /\ [][NextAmount]_vars

(***************************************************************************)
(* validateCommand on its own: the loop body of parseCommand on one        *)
(* command object that JSON.parse returned.                                *)
(***************************************************************************)
\* amounts in mills: around 0, ordinary, around 100,000 and around 1,000,000
AmountsTried ==
  {0 - 5000, 0, 1, 4, 5, 25000, 25004, 25005,
   100000000, 100000004, 100000005, 100001000,
   1000000000, 1000000004, 1000000005}

\* date strings: unparseable, and by their distance in days from today
DatesTried ==
  {[parseable |-> FALSE, offset |-> 0]}
  \cup {[parseable |-> TRUE, offset |-> o] :
          o \in {0 - 1826, 0 - 1825, 0 - 1824, 0 - 1, 0, 1}}

CommandInputs ==
  {[action |-> "add_transaction", type |-> t, amount |-> a,
    category |-> <<70, 111, 111, 100>>, keys |-> <<"action", "type", "amount", "category">>] :
     t \in {"income", "expense"}, a \in AmountsTried}
  \cup {[action |-> act, person |-> p, amount |-> a,
         keys |-> <<"action", "person", "amount">>] :
          act \in {"add_debt", "add_borrow"}, p \in {<<65, 108, 101, 120>>, <<66, 111>>},
          a \in AmountsTried}
  \cup {[action |-> "add_borrow", person |-> <<66, 111>>, amount |-> a, dueDate |-> d,
         keys |-> <<"action", "person", "amount", "dueDate">>] :
          a \in {25000, 100000005}, d \in DatesTried}

\* parseCommand, the body of its loop after JSON.parse returned command
ValidateCommandCall(command) ==
  /\ validated' = [call |-> "validateCommand", input |-> command,
                   result |-> Parsed([ok |-> TRUE, obj |-> command], {}, {})]
  /\ UNCHANGED <<chatVars, ledgerVars, retryVars, parses, storeVars, clockVars, batch, dispatched, sendVars, streamVars>>

NextCommand == \E command \in CommandInputs : ValidateCommandCall(command)

SpecCommand == Init /\ [][NextCommand]_vars

(***************************************************************************)
(* Reading what localStorage holds under a key of the ledger: the string   *)
(* may be absent, empty, anything but JSON, or JSON of any shape.  A JSON   *)
(* value is a record with its type and, by type, its value, text, items or *)
(* fields.                                                                 *)
(***************************************************************************)
JNull == [type |-> "null"]
JNumber(n) == [type |-> "number", value |-> n]
JString(x) == [type |-> "string", text |-> x]
JArray(items) == [type |-> "array", items |-> items]
JObject(fields) == [type |-> "object", fields |-> fields]

JEntry == JObject([id |-> JString("e1"), type |-> JString("expense"), amount |-> JNumber(5000)])
JDebt == JObject([id |-> JString("d1"), status |-> JString("unpaid"), amount |-> JNumber(7000)])

JDayData(dateKey, balance, items) ==
  JObject([date |-> JString(dateKey), startingBalance |-> JNumber(balance),
           entries |-> JArray(items)])

\* what getItem returns: null, or a string that JSON.parse takes or refuses
StoredStrings ==
  {[kind |-> "absent"], [kind |-> "empty"], [kind |-> "notJSON"]}
  \cup {[kind |-> "json", value |-> v] :
          v \in {JNull, JNumber(5), JString("x"), JArray(<<>>), JArray(<<JDebt>>),
                 JObject([date |-> JString("d1")]),
                 JObject([date |-> JString("d1"), startingBalance |-> JNumber(0),
                          entries |-> JNull]),
                 JObject([date |-> JString("d1"), startingBalance |-> JNumber(0),
                          entries |-> JString("x")]),
                 JDayData("d1", 0, <<>>), JDayData("d1", 0, <<JEntry>>),
                 JDayData("d2", 0, <<>>), JDayData("d1", 5000, <<JEntry, JEntry>>)}}

\* !raw
Falsy(raw) == raw.kind \in {"absent", "empty"}

\* getDayData(dateKey) where getItem returned raw and getStartingBalance
\* returned balance (<<>> for null, <<n>> for the number n)
getDayDataFrom(raw, dateKey, balance) ==
  IF Falsy(raw) \/ raw.kind # "json"
  THEN JDayData(dateKey, IF balance = <<>> THEN 0 ELSE balance[1], <<>>)
  ELSE raw.value

\* getDebts() and getBorrows() where getItem returned raw
getListFrom(raw) ==
  IF Falsy(raw) \/ raw.kind # "json" THEN JArray(<<>>)
  ELSE IF raw.value.type = "array" THEN raw.value ELSE JArray(<<>>)

\* day.entries.filter and day.entries.unshift: a TypeError unless day is an
\* object whose entries is an array
EntriesThrows(day) ==
  ~(/\ day.type = "object"
    /\ "entries" \in DOMAIN day.fields
    /\ day.fields.entries.type = "array")

ReadDayData(raw, dateKey, balance) ==
  /\ validated' = [call |-> "getDayData",
                   input |-> [raw |-> raw, dateKey |-> dateKey, balance |-> balance],
                   result |-> getDayDataFrom(raw, dateKey, balance)]
  /\ UNCHANGED <<chatVars, ledgerVars, retryVars, parses, storeVars, clockVars, batch, dispatched, sendVars, streamVars>>

ReadList(name, raw) ==
  /\ validated' = [call |-> name, input |-> [raw |-> raw], result |-> getListFrom(raw)]
  /\ UNCHANGED <<chatVars, ledgerVars, retryVars, parses, storeVars, clockVars, batch, dispatched, sendVars, streamVars>>

NextRead ==
  \/ \E raw \in StoredStrings, dateKey \in {"d1", "d2"}, balance \in {<<>>, <<0>>, <<5000>>} :
       ReadDayData(raw, dateKey, balance)
  \/ \E name \in {"getDebts", "getBorrows"}, raw \in StoredStrings : ReadList(name, raw)

SpecRead == Init /\ [][NextRead]_vars

(***************************************************************************)
(* The handlers that change the ledger, each on its own: the tracker       *)
(* (App), the debts view, the borrowed view, the executor's loop on one    *)
(* command, and updateEntry.  dispatched holds the fts-data-changed events *)
(* of the last handler.                                                    *)
(***************************************************************************)
MaxIds == 3

\* a decimal numeral: digits with at most one point
IsNumeral(s) ==
  /\ \E i \in 1..Len(s) : IsDigit(s[i])
  /\ \A i \in 1..Len(s) : IsDigit(s[i]) \/ s[i] = 46
  /\ Cardinality({i \in 1..Len(s) : s[i] = 46}) <= 1

\* Number(text) in mills, for texts of at most three fraction digits: NaN
\* for anything but a numeral and its negative
NumberOf(text) ==
  With(Trim(text), LAMBDA t :
    IF t = <<>> THEN [finite |-> TRUE, value |-> 0]
    ELSE IF IsNumeral(t)
    THEN [finite |-> TRUE, value |-> ParseWhole(t) * 1000 + ParseFrac(t)]
    ELSE IF t[1] = 45 /\ IsNumeral(Tail(t))
    THEN [finite |-> TRUE, value |-> 0 - (ParseWhole(Tail(t)) * 1000 + ParseFrac(Tail(t)))]
    ELSE [finite |-> FALSE])

\* what the forms hold: "25", "1.005", "0", "-5", "abc"
AmountTexts ==
  {<<50, 53>>, <<49, 46, 48, 48, 53>>, <<48>>, <<45, 53>>, <<97, 98, 99>>}

\* "Alex", "A", "<b>Bo</b>", and 51 letters
PersonTexts ==
  {<<65, 108, 101, 120>>, <<65>>, <<60, 98, 62, 66, 111, 60, 47, 98, 62>>,
   [i \in 1..51 |-> 97]}

\* "", " ok ", "<i>", and 201 letters
NoteTexts == {<<>>, <<32, 111, 107, 32>>, <<60, 105, 62>>, [i \in 1..201 |-> 110]}

Food == <<70, 111, 111, 100>>

\* no ledger change, no event
Ignored ==
  /\ dispatched' = <<>>
  /\ UNCHANGED ledgerVars

\* App.handleAddEntry on today's date
HandleAddEntry(amountText, noteText) ==
  /\ nextId < MaxIds
  /\ IF ~NumberOf(amountText).finite \/ NumberOf(amountText).value <= 0
     THEN Ignored
     ELSE /\ entries' = addEntry(entries, [type |-> "expense",
                                           amount |-> NumberOf(amountText).value,
                                           category |-> Food, note |-> Trim(noteText)],
                                 nextId)
          /\ nextId' = nextId + 1
          /\ dispatched' = <<>>
          /\ UNCHANGED <<startingBalance, debts, borrows, today>>
  /\ UNCHANGED <<chatVars, retryVars, parses, storeVars, clockVars, batch, validated, sendVars, streamVars>>

\* deleteEntry: day.entries.filter((e) => e.id !== entryId)
deleteEntry(dayEntries, entryId) == SelectSeq(dayEntries, LAMBDA e : e.id # entryId)

\* App.handleDelete on today's date
HandleDelete(i) ==
  /\ i \in 1..Len(entries)
  /\ entries' = deleteEntry(entries, entries[i].id)
  /\ dispatched' = <<>>
  /\ UNCHANGED <<startingBalance, debts, borrows, nextId, today>>
  /\ UNCHANGED <<chatVars, retryVars, parses, storeVars, clockVars, batch, validated, sendVars, streamVars>>

\* an updateEntry that stores the amount as it is given
updateEntryUnrounded(dayEntries, entryId, updates) ==
  [i \in 1..Len(dayEntries) |->
     IF dayEntries[i].id = entryId /\ (\A j \in 1..(i - 1) : dayEntries[j].id # entryId)
     THEN updates @@ dayEntries[i]
     ELSE dayEntries[i]]

\* updateEntry: the first entry of that id with the updates over it, the
\* amount rounded
updateEntry(dayEntries, entryId, updates) ==
  [i \in 1..Len(dayEntries) |->
     IF dayEntries[i].id = entryId /\ (\A j \in 1..(i - 1) : dayEntries[j].id # entryId)
     THEN (IF Has(updates, "amount")
           THEN [updates EXCEPT !.amount = round(@)] ELSE updates) @@ dayEntries[i]
     ELSE dayEntries[i]]

\* the updates a validated edit_transaction command carries
EntryUpdates == {[amount |-> 7000], [amount |-> 2005], [type |-> "income"]}

UpdateEntry(i, updates) ==
  /\ i \in 1..Len(entries)
  /\ entries' = updateEntry(entries, entries[i].id, updates)
  /\ dispatched' = <<>>
  /\ UNCHANGED <<startingBalance, debts, borrows, nextId, today>>
  /\ UNCHANGED <<chatVars, retryVars, parses, storeVars, clockVars, batch, validated, sendVars, streamVars>>

\* DebtsView.handleAdd
DebtsHandleAdd(personText, amountText, noteText) ==
  /\ nextId < MaxIds
  /\ IF \/ ~validatePersonName(personText).isValid
        \/ ~validateAmount(amountText).isValid
        \/ ~validateNote(noteText).isValid
     THEN Ignored
     ELSE /\ debts' = addDebt(debts, [person |-> validatePersonName(personText).value,
                                      amount |-> validateAmount(amountText).value,
                                      note |-> validateNote(noteText).value],
                              nextId, today)
          /\ nextId' = nextId + 1
          /\ dispatched' = <<"debt">>
          /\ UNCHANGED <<startingBalance, entries, borrows, today>>
  /\ UNCHANGED <<chatVars, retryVars, parses, storeVars, clockVars, batch, validated, sendVars, streamVars>>

\* DebtsView.togglePaid
DebtsTogglePaid(i) ==
  /\ i \in 1..Len(debts)
  /\ debts' = IF debts[i].status = "paid" THEN setStatus(debts, debts[i].id, "unpaid", today)
              ELSE markPaid(debts, debts[i].id, today)
  /\ dispatched' = <<"debt">>
  /\ UNCHANGED <<startingBalance, entries, borrows, nextId, today>>
  /\ UNCHANGED <<chatVars, retryVars, parses, storeVars, clockVars, batch, validated, sendVars, streamVars>>

\* BorrowedView.handleAdd
BorrowedHandleAdd(personText, amountText, noteText) ==
  /\ nextId < MaxIds
  /\ IF \/ Trim(personText) = <<>>
        \/ ~NumberOf(amountText).finite
        \/ NumberOf(amountText).value <= 0
     THEN Ignored
     ELSE /\ borrows' = addBorrow(borrows, [person |-> Trim(personText),
                                            amount |-> NumberOf(amountText).value,
                                            note |-> Trim(noteText)],
                                  nextId, today)
          /\ nextId' = nextId + 1
          /\ dispatched' = <<>>
          /\ UNCHANGED <<startingBalance, entries, debts, today>>
  /\ UNCHANGED <<chatVars, retryVars, parses, storeVars, clockVars, batch, validated, sendVars, streamVars>>

\* BorrowedView.togglePaid
BorrowedTogglePaid(i) ==
  /\ i \in 1..Len(borrows)
  /\ borrows' = IF borrows[i].status = "paid"
                THEN setStatus(borrows, borrows[i].id, "unpaid", today)
                ELSE markPaid(borrows, borrows[i].id, today)
  /\ dispatched' = <<>>
  /\ UNCHANGED <<startingBalance, entries, debts, nextId, today>>
  /\ UNCHANGED <<chatVars, retryVars, parses, storeVars, clockVars, batch, validated, sendVars, streamVars>>

\* the identifier of record id as a command names it
IdText(id) == <<100, 48 + id>>

\* the commands of a response: the three additions, and a mark and a delete
\* command for each record of list
AdditionCommands ==
  {[action |-> "add_debt", person |-> <<65, 108, 101, 120>>, amount |-> 25000,
    keys |-> <<"action", "person", "amount">>],
   [action |-> "add_borrow", person |-> <<66, 111>>, amount |-> 10000,
    keys |-> <<"action", "person", "amount">>],
   [action |-> "add_transaction", type |-> "expense", amount |-> 12345, category |-> Food,
    keys |-> <<"action", "type", "amount", "category">>]}

DebtCommand(action, id) ==
  [action |-> action, debtId |-> IdText(id), keys |-> <<"action", "debtId">>]

BorrowCommand(action, id) ==
  [action |-> action, borrowId |-> IdText(id), keys |-> <<"action", "borrowId">>]

\* the executor's loop on the result the parser makes of command
AdvisorCommand(command) ==
  /\ nextId < MaxIds
  /\ With(ExecOne(Parsed([ok |-> TRUE, obj |-> command], {}, {}),
                  [messages |-> <<>>, processedTransactions |-> {}, entries |-> entries,
                   debts |-> debts, borrows |-> borrows, nextId |-> nextId,
                   today |-> today, applied |-> <<>>, notices |-> {},
                   handed |-> <<>>, dispatched |-> <<>>, awaited |-> FALSE]),
          LAMBDA out :
            /\ entries' = out.entries
            /\ debts' = out.debts
            /\ borrows' = out.borrows
            /\ nextId' = out.nextId
            /\ dispatched' = out.dispatched)
  /\ UNCHANGED <<startingBalance, today>>
  /\ UNCHANGED <<chatVars, retryVars, parses, storeVars, clockVars, batch, validated, sendVars, streamVars>>

\* App: the Erase button, eraseAllData() on the user's namespace
EraseAll ==
  /\ entries # <<>> \/ debts # <<>> \/ borrows # <<>>
  /\ entries' = <<>>
  /\ debts' = <<>>
  /\ borrows' = <<>>
  /\ startingBalance' = 0
  /\ dispatched' = <<>>
  /\ UNCHANGED <<nextId, today>>
  /\ UNCHANGED <<chatVars, retryVars, parses, storeVars, clockVars, batch, validated, sendVars, streamVars>>

NextViews ==
  \/ \E amountText \in AmountTexts, noteText \in NoteTexts : HandleAddEntry(amountText, noteText)
  \/ \E i \in 1..MaxIds : HandleDelete(i)
  \/ \E i \in 1..MaxIds, updates \in EntryUpdates : UpdateEntry(i, updates)
  \/ \E personText \in PersonTexts, amountText \in AmountTexts, noteText \in NoteTexts :
       DebtsHandleAdd(personText, amountText, noteText)
  \/ \E i \in 1..MaxIds : DebtsTogglePaid(i)
  \/ \E personText \in PersonTexts, amountText \in AmountTexts, noteText \in NoteTexts :
       BorrowedHandleAdd(personText, amountText, noteText)
  \/ \E i \in 1..MaxIds : BorrowedTogglePaid(i)
  \/ \E command \in AdditionCommands : AdvisorCommand(command)
  \/ \E i \in 1..Len(debts), action \in {"mark_debt_paid", "delete_debt"} :
       AdvisorCommand(DebtCommand(action, debts[i].id))
  \/ \E i \in 1..Len(borrows), action \in {"mark_borrow_paid", "delete_borrow"} :
       AdvisorCommand(BorrowCommand(action, borrows[i].id))
  \/ EraseAll
  \/ NextDay

SpecViews == Init /\ [][NextViews]_vars

(***************************************************************************)
(* send on its own: every press of Send or Enter that the rendered guards  *)
(* let through starts an invocation, which awaits fetchApiKeysForUser and, *)
(* without insights, refreshInsights before it sets loading.  superAi and  *)
(* insights are constants of the render the invocation was started from.   *)
(* A delta callback runs to its end before the next event of any stream:   *)
(* its awaits resolve as microtasks.                                       *)
(***************************************************************************)
MaxSends == 2

\* the text the model streams back to each request
SendResponse == <<"M", "{", "debtAlex", "}", "t">>

\* the executor loop over results through all its awaits
RECURSIVE RunToEnd(_)
RunToEnd(out) == IF out.rest = <<>> THEN out.st ELSE RunToEnd(RunChain(out.rest, out.st))

SetAt(i, position) == calls' = [calls EXCEPT ![i].at = position]

\* the Send button (disabled={loading || !input.trim() || !user}) or Enter
\* (if (!loading && input.trim()) send()), a question being typed: send runs
\* up to await fetchApiKeysForUser
PressSend ==
  /\ ~loading
  /\ Len(calls) < MaxSends
  /\ calls' = Append(calls, [at |-> "keys", superAi |-> superAi, insights |-> insights,
                             assembled |-> <<>>, sent |-> 0])
  /\ UNCHANGED <<loading, insights, chatVars, ledgerVars, retryVars, parses, storeVars,
                 clockVars, batch, validated, dispatched, streamVars>>

\* the effect run on mount resolves with the summary stored for the user
InsightsLoaded ==
  /\ ~insights
  /\ insights' = TRUE
  /\ UNCHANGED <<loading, calls, chatVars, ledgerVars, retryVars, parses, storeVars, clockVars,
                 batch, validated, dispatched, streamVars>>

\* send with input SUDOSHAN
SendSudoshan ==
  /\ ~loading
  /\ EnableSuperAi

\* send from setLoading(true) to await withRetry(callOpenRouterStream ...)
StartStream(i) ==
  /\ loading' = TRUE
  /\ processedCommands' = {}
  /\ processedTransactions' = {}
  /\ messages' = messages \o <<UserBubble("question"), StreamBubble(<<>>)>>
  /\ applied' = <<>>
  /\ notices' = {}
  /\ handed' = <<>>
  /\ SetAt(i, "streaming")
  /\ UNCHANGED <<insights, ledgerVars>>

\* fetchApiKeysForUser resolves: no key (setError and return), no insights
\* (await refreshInsights), or the stream is started
KeysFetched(i, hasKeys) ==
  /\ i \in 1..Len(calls) /\ calls[i].at = "keys"
  /\ IF ~hasKeys
     THEN /\ SetAt(i, "finished")
          /\ UNCHANGED <<loading, insights, processedCommands, processedTransactions, messages,
                         applied, notices, handed, ledgerVars>>
     ELSE IF ~calls[i].insights
     THEN /\ SetAt(i, "insights")
          /\ UNCHANGED <<loading, insights, processedCommands, processedTransactions, messages,
                         applied, notices, handed, ledgerVars>>
     ELSE StartStream(i)
  /\ UNCHANGED <<superAi, showClearConfirm, phase, turns, response, sent, assembled, attempt,
                 pending, retryVars, parses, storeVars, clockVars, batch, validated, dispatched,
                 streamVars>>

\* refreshInsights resolves, having set the insights; send reads the
\* insights of its own render, which had none, and returns
InsightsRefreshed(i) ==
  /\ i \in 1..Len(calls) /\ calls[i].at = "insights"
  /\ insights' = TRUE
  /\ SetAt(i, "finished")
  /\ UNCHANGED <<loading, chatVars, ledgerVars, retryVars, parses, storeVars, clockVars, batch,
                 validated, dispatched, streamVars>>

\* what the delta callback of invocation i leaves, st being the state its
\* executor loop ended in
AfterCallback(i, text, n, st) ==
  /\ calls' = [calls EXCEPT ![i].assembled = text, ![i].sent = @ + n]
  /\ messages' = st.messages
  /\ processedTransactions' = st.processedTransactions
  /\ entries' = st.entries
  /\ debts' = st.debts
  /\ borrows' = st.borrows
  /\ nextId' = st.nextId
  /\ applied' = st.applied
  /\ notices' = st.notices
  /\ handed' = st.handed

\* the callback of invocation i on cumulative text: deltaToState,
\* parseCommand when its superAi is set, and the executor loop
CallbackOf(i, text, n, parsed) ==
  /\ processedCommands' = parsed.processed
  /\ AfterCallback(i, text, n,
       RunToEnd([rest |-> parsed.commands,
                 st |-> [messages |-> ReplaceLast(messages, StreamBubble(text)),
                         processedTransactions |-> processedTransactions,
                         entries |-> entries, debts |-> debts, borrows |-> borrows,
                         nextId |-> nextId, today |-> today, applied |-> applied,
                         notices |-> notices, handed |-> handed, dispatched |-> <<>>,
                         awaited |-> FALSE]]))

\* a delta of n atoms arrives on the stream of invocation i
CallDelta(i, n) ==
  /\ i \in 1..Len(calls) /\ calls[i].at = "streaming"
  /\ calls[i].sent + n <= Len(SendResponse)
  /\ CallbackOf(i, calls[i].assembled \o SubSeq(SendResponse, calls[i].sent + 1, calls[i].sent + n), n,
                IF calls[i].superAi
                THEN parseCommand(calls[i].assembled
                                    \o SubSeq(SendResponse, calls[i].sent + 1, calls[i].sent + n),
                                  processedCommands, processedTransactions)
                ELSE [commands |-> <<>>, processed |-> processedCommands])
  /\ UNCHANGED <<superAi, showClearConfirm, phase, turns, response, sent, assembled, attempt,
                 pending, startingBalance, today, loading, insights, retryVars, parses,
                 storeVars, clockVars, batch, validated, dispatched, streamVars>>

\* the stream of invocation i ends: withRetry returns, and the finally block
\* of send sets loading to false
CallDone(i) ==
  /\ i \in 1..Len(calls) /\ calls[i].at = "streaming"
  /\ calls[i].sent = Len(SendResponse)
  /\ SetAt(i, "finished")
  /\ loading' = FALSE
  /\ UNCHANGED <<insights, chatVars, ledgerVars, retryVars, parses, storeVars, clockVars, batch,
                 validated, dispatched, streamVars>>

NextSend ==
  \/ InsightsLoaded
  \/ PressSend
  \/ SendSudoshan
  \/ \E i \in 1..MaxSends, hasKeys \in BOOLEAN : KeysFetched(i, hasKeys)
  \/ \E i \in 1..MaxSends : InsightsRefreshed(i)
  \/ \E i \in 1..MaxSends, n \in 1..MaxDelta : CallDelta(i, n)
  \/ \E i \in 1..MaxSends : CallDone(i)

SpecSend == Init /\ [][NextSend]_vars

(***************************************************************************)
(* callOpenRouterStream on its own: one call with MaxKeys API keys, tried  *)
(* in order.  A delta is a non-empty text (an empty one is not passed on). *)
(***************************************************************************)
MaxKeys == 2
MaxStreamed == 3

\* the delta texts of the SSE messages: "a", "b", "ab"
DeltaTexts == {<<97>>, <<98>>, <<97, 98>>}

\* continue: the for loop takes the next key, and after the last the
\* function throws lastError
NextKey ==
  /\ keyAt' = keyAt + 1
  /\ connected' = FALSE
  /\ outcome' = IF keyAt = MaxKeys THEN [state |-> "rejected"] ELSE outcome

\* fetch rejects, or the response is not ok or has no body
FetchFails ==
  /\ outcome.state = "pending" /\ ~connected
  /\ NextKey
  /\ UNCHANGED <<full, deltas, chatVars, ledgerVars, retryVars, parses, storeVars, clockVars,
                 batch, validated, dispatched, sendVars>>

\* fetch resolves with a body: getReader, let full = ""
FetchOk ==
  /\ outcome.state = "pending" /\ ~connected
  /\ connected' = TRUE
  /\ full' = <<>>
  /\ UNCHANGED <<keyAt, deltas, outcome, chatVars, ledgerVars, retryVars, parses, storeVars,
                 clockVars, batch, validated, dispatched, sendVars>>

\* a data line with content delta: full += delta; onDelta(delta)
Deliver(delta) ==
  /\ outcome.state = "pending" /\ connected
  /\ Len(deltas) < MaxStreamed
  /\ full' = full \o delta
  /\ deltas' = Append(deltas, delta)
  /\ UNCHANGED <<keyAt, connected, outcome, chatVars, ledgerVars, retryVars, parses, storeVars,
                 clockVars, batch, validated, dispatched, sendVars>>

\* the line data: [DONE], or the reader is done: return full
StreamEnds ==
  /\ outcome.state = "pending" /\ connected
  /\ outcome' = [state |-> "resolved", value |-> full]
  /\ UNCHANGED <<keyAt, connected, full, deltas, chatVars, ledgerVars, retryVars, parses,
                 storeVars, clockVars, batch, validated, dispatched, sendVars>>

\* reader.read() rejects: the catch block keeps the error and continues
ReadRejects ==
  /\ outcome.state = "pending" /\ connected
  /\ NextKey
  /\ UNCHANGED <<full, deltas, chatVars, ledgerVars, retryVars, parses, storeVars, clockVars,
                 batch, validated, dispatched, sendVars>>

NextStream ==
  \/ FetchFails
  \/ FetchOk
  \/ \E delta \in DeltaTexts : Deliver(delta)
  \/ StreamEnds
  \/ ReadRejects

SpecStream == Init /\ [][NextStream]_vars

(***************************************************************************)
(* Properties                                                              *)
(***************************************************************************)
\* the command without the order of its members
Logical(command) == [f \in DOMAIN command \ {"keys"} |-> command[f]]

\* a question sent with Super AI on has streamed r to its end, and the chat
\* has not been cleared since Super AI was enabled
TurnCompleted(r) ==
  /\ response = r /\ sent = Len(r) /\ phase = "idle"
  /\ Len(messages) >= 4
  /\ messages[1].kind = "user" /\ messages[1].content = "SUDOSHAN"
  /\ messages[3].kind = "user" /\ messages[3].content = "question"

\* a ledger record without its identifier
Content(r) == [f \in DOMAIN r \ {"id"} |-> r[f]]

\* no two records of the list have the same content
NoTwins(list) ==
  \A i, j \in 1..Len(list) : i # j => Content(list[i]) # Content(list[j])

\* C1: within one conversation turn, whatever the chunking of the response,
\* each command identity mutates the ledger at most once: the ledger, empty
\* before the turn, never holds two records made from the same command.
C1_OncePerTurn ==
  turns <= 1 => (NoTwins(entries) /\ NoTwins(debts) /\ NoTwins(borrows))

\* What does hold: between two clearings of the processed sets no command is
\* applied twice, and a command already applied, or already waiting to be
\* applied, is never returned as a success again by a later parse of the
\* cumulative buffer.
AtMostOnceBetweenClearings ==
  /\ \A i, j \in 1..Len(applied) :
       i # j => Logical(applied[i].command) # Logical(applied[j].command)
  /\ \A i \in 1..Len(pending) : SuccessIds(pending[i]) \cap processedTransactions = {}
  /\ \A i, j \in 1..Len(pending) :
       i # j => SuccessIds(pending[i]) \cap SuccessIds(pending[j]) = {}

\* a command was applied, its text was parsed again by a later delta of the
\* same stream, and the later occurrence was classified as a duplicate
DuplicateAfterApplication ==
  /\ phase = "streaming" /\ sent >= 2
  /\ Len(applied) = 1 /\ Len(debts) = 1
  /\ <<"duplicate", "add_debt">> \in notices

\* the sum of the amounts of the records of list whose field f is v
RECURSIVE AmountOf(_, _, _)
AmountOf(list, f, v) ==
  IF list = <<>> THEN 0
  ELSE (IF Head(list)[f] = v THEN Head(list).amount ELSE 0) + AmountOf(Tail(list), f, v)

\* C2: calculateTotals reports income as the sum of the day's income entries,
\* expenses as the sum of its expense entries, and remaining as
\* round2(startingBalance + income - expenses - D + R), D and R being the sums
\* of all debts and all borrows that are unpaid, whatever day they were
\* created on; paid debts and borrows contribute nothing.
C2_Totals ==
  calculateTotals([startingBalance |-> startingBalance, entries |-> entries], debts, borrows)
    = [income |-> AmountOf(entries, "type", "income"),
       expenses |-> AmountOf(entries, "type", "expense"),
       remaining |-> round(startingBalance + AmountOf(entries, "type", "income")
                           - AmountOf(entries, "type", "expense")
                           - AmountOf(debts, "status", "unpaid")
                           + AmountOf(borrows, "status", "unpaid"))]

\* the example of the claim: balance 100, income 50, expenses 20, an unpaid
\* debt of 30 and an unpaid borrow of 10 created on an earlier day, remaining 110
C2_Witness ==
  /\ today = 1 /\ startingBalance = 100000
  /\ AmountOf(entries, "type", "income") = 50000
  /\ AmountOf(entries, "type", "expense") = 20000
  /\ Len(debts) = 1 /\ debts[1].status = "unpaid" /\ debts[1].amount = 30000
  /\ debts[1].createdAt = 0
  /\ Len(borrows) = 1 /\ borrows[1].status = "unpaid" /\ borrows[1].amount = 10000
  /\ borrows[1].createdAt = 0
  /\ calculateTotals([startingBalance |-> startingBalance, entries |-> entries],
                     debts, borrows).remaining = 110000

\* spec 4.4: the index of the "}" that returns the brace depth to zero,
\* scanning from position k at the given depth; 0 when the text ends first
RECURSIVE DepthClose(_, _, _)
DepthClose(text, k, depth) ==
  IF k > Len(text) THEN 0
  ELSE IF text[k] = "{" THEN DepthClose(text, k + 1, depth + 1)
  ELSE IF text[k] = "}" THEN (IF depth = 1 THEN k ELSE DepthClose(text, k + 1, depth - 1))
  ELSE DepthClose(text, k + 1, depth)

\* spec 4.4: the candidates of a text, one per marker whose object is
\* complete, each running from its first "{" to the "}" at depth zero
RECURSIVE BlocksFrom(_, _)
BlockClosed(text, open, close) ==
  IF close = 0 THEN <<>>
  ELSE <<SubSeq(text, open, close)>> \o BlocksFrom(text, close + 1)

BlocksAt(text, i) ==
  IF i = 0 THEN <<>>
  ELSE BlockClosed(text, SkipWs(text, i + 1), DepthClose(text, SkipWs(text, i + 1), 0))

BlocksFrom(text, from) == BlocksAt(text, NextMatch(text, from))

\* every block is a well-formed command, and no two have the same identity
WellFormedDistinct(blocks) ==
  /\ \A k \in 1..Len(blocks) : ParseOne(blocks[k], {}, {}).success
  /\ \A k, l \in 1..Len(blocks) :
       k # l => ParseOne(blocks[k], {}, {}).commandId # ParseOne(blocks[l], {}, {}).commandId

\* the n-th recorded call of parseCommand started with no identity known
Fresh(n) == parses[n].before = {} /\ parses[n].existing = {}

\* the number of markers in a text
Markers(text) == Cardinality({i \in 1..Len(text) : text[i] = "M"})

\* the results of the n-th call are one success per block
OnePerBlock(n, blocks) ==
  /\ Len(parses[n].commands) = Len(blocks)
  /\ \A k \in 1..Len(parses[n].commands) : parses[n].commands[k].success

\* C3: a single call of parseCommand on a text with two or more well-formed
\* command blocks of distinct identities returns one successful result per
\* block.
C3_OneResultPerBlock ==
  \A n \in 1..Len(parses) :
    (/\ Fresh(n)
     /\ Len(BlocksFrom(parses[n].text, 1)) >= 2
     /\ WellFormedDistinct(BlocksFrom(parses[n].text, 1)))
      => OnePerBlock(n, BlocksFrom(parses[n].text, 1))

\* C4: when a response with two command markers has been streamed to its
\* end, both commands have been applied, in the order of their markers.
C4_AppliedInMarkerOrder ==
  TurnCompleted(<<"M", "{", "debtAlex", "}", "M", "{", "debtBo", "}">>)
    => [i \in 1..Len(applied) |-> applied[i].command.person] = <<<<65, 108, 101, 120>>, <<66, 111>>>>

\* C5: a marker followed by an object that is not yet complete (cut anywhere,
\* also right after the closing brace of a nested object) yields no result;
\* once the object is complete it yields exactly one.
C5_IncompleteYieldsNothing ==
  \A n \in 1..Len(parses) :
    Markers(parses[n].text) = 1
      => Len(parses[n].commands) = Len(BlocksFrom(parses[n].text, 1))

\* C6: a well-formed command is parsed from the candidate that ends at the
\* "}" returning the brace depth to zero, whether or not its note contains
\* braces and whether or not the text after it contains a further "}".
C6_BalancedCandidate ==
  \A n \in 1..Len(parses) :
    (/\ Fresh(n) /\ Markers(parses[n].text) = 1
     /\ Len(BlocksFrom(parses[n].text, 1)) = 1
     /\ WellFormedDistinct(BlocksFrom(parses[n].text, 1)))
      => OnePerBlock(n, BlocksFrom(parses[n].text, 1))

\* C7: a duplicate is skipped silently: no error bubble is ever appended to
\* the conversation for it.
C7_NoErrorForDuplicate ==
  \A i \in 1..Len(messages) :
    messages[i].kind = "commandError"
      => messages[i].error # <<"Duplicate command detected and skipped">>

\* the n-th recorded call returned one result, and it carries an identity
HasId(n) == Len(parses[n].commands) = 1 /\ Has(parses[n].commands[1], "commandId")

\* the validated command of the first candidate of a text
CommandOfText(text) ==
  validateCommand(JSONParse(JsonString(text, NextMatch(text, 1))).obj).command

\* C8: two command texts that denote the same command (the same normalized
\* field values), whatever their whitespace and the order of their members,
\* get the same identity.
C8_SameCommandSameIdentity ==
  \A m, n \in 1..Len(parses) :
    (/\ HasId(m) /\ HasId(n)
     /\ Logical(CommandOfText(parses[m].text)) = Logical(CommandOfText(parses[n].text)))
      => parses[m].commands[1].commandId = parses[n].commands[1].commandId

\* a command was parsed, and then the same command written with other
\* whitespace and its members in another order got the same identity
C8_Witness ==
  /\ Len(parses) = 2 /\ HasId(1) /\ HasId(2)
  /\ parses[1].commands[1].success
  /\ parses[1].text # parses[2].text
  /\ Markers(parses[1].text) = 1 /\ Markers(parses[2].text) = 1
  /\ CommandOfText(parses[1].text).keys # CommandOfText(parses[2].text).keys
  /\ parses[1].commands[1].commandId = parses[2].commands[1].commandId

\* C9: a command the parser accepted never ends in an executor error: no
\* error bubble of the executor's catch block is ever appended.
C9_NoExecutorError ==
  \A i \in 1..Len(messages) : messages[i].kind # "execError"

\* the failure is one classifyError marks retryable
Retryable(e) == With(classifyError(e), LAMBDA aiError : Has(aiError, "retryable") /\ aiError.retryable)

\* C10: withRetry invokes the operation at most 3 times; every invocation but
\* the last failed with a retryable error, so a re-invocation only follows a
\* retryable failure, none follows a non-retryable one, and none follows a
\* success.
C10_RetryPolicy ==
  /\ Len(rLog) <= 3
  /\ \A i \in 1..(Len(rLog) - 1) : rLog[i].kind = "threw" /\ Retryable(rLog[i].error)
  /\ (rPhase \in {"calling", "sleeping"} /\ rLog # <<>>)
       => (rLog[Len(rLog)].kind = "threw" /\ Retryable(rLog[Len(rLog)].error))

\* the operation failed twice with retryable errors and withRetry returned
\* the result of the third invocation
C10_Witness ==
  /\ Len(rLog) = 3 /\ rPhase = "returned"
  /\ rLog[1].kind = "threw" /\ rLog[2].kind = "threw" /\ rLog[3].kind = "returned"

\* the message of e contains one of the texts
Mentions(e, texts) == Has(e, "message") /\ \E t \in texts : Includes(e.message, t)

\* rule k of the classification, in the order the specification lists them
RuleFires(e, k) ==
  CASE k = 1 -> (Has(e, "name") /\ e.name = "NetworkError")
                  \/ Mentions(e, {<<102, 101, 116, 99, 104>>})
    [] k = 2 -> Mentions(e, {<<52, 50, 57>>, <<114, 97, 116, 101, 32, 108, 105, 109, 105, 116>>})
    [] k = 3 -> Mentions(e, {<<52, 48, 49>>, <<52, 48, 51>>})
    [] k = 4 -> Mentions(e, {<<53, 48, 48>>, <<53, 48, 50>>, <<53, 48, 51>>})
    [] k = 5 -> Mentions(e, {<<116, 105, 109, 101, 111, 117, 116>>})
    [] OTHER -> TRUE

\* the first rule that fires, 6 (unknown) when none of the five does
FirstRule(e) == CHOOSE k \in 1..6 : RuleFires(e, k) /\ \A j \in 1..(k - 1) : ~RuleFires(e, j)

\* the classification each rule gives
RuleResult ==
  <<[code |-> "NETWORK_ERROR", retryable |-> TRUE],
    [code |-> "RATE_LIMITED", retryable |-> TRUE],
    [code |-> "AUTH_ERROR", retryable |-> FALSE],
    [code |-> "SERVER_ERROR", retryable |-> TRUE],
    [code |-> "TIMEOUT_ERROR", retryable |-> TRUE],
    [code |-> "UNKNOWN_ERROR", retryable |-> FALSE]>>

\* the failure of the i-th invocation is an error classifyError can read: it
\* has a message, or its name alone settles the first rule
Classifiable(i) ==
  /\ rLog[i].kind = "threw"
  /\ Has(rLog[i].error, "message") \/ RuleFires(rLog[i].error, 1)

\* C11: classifyError returns the classification of the first rule that
\* matches, in the order network/fetch, 429/rate limit, 401/403, 500/502/503,
\* timeout, unknown; an error matching several rules gets the earliest.
C11_FirstMatch ==
  \A i \in 1..Len(rLog) :
    Classifiable(i) => classifyError(rLog[i].error) = RuleResult[FirstRule(rLog[i].error)]

\* an invocation failed with an error that matches two rules, 500/502/503 and
\* timeout, and was classified by the earlier one
C11_Witness ==
  \E i \in 1..Len(rLog) :
    /\ Classifiable(i)
    /\ RuleFires(rLog[i].error, 4) /\ RuleFires(rLog[i].error, 5)
    /\ classifyError(rLog[i].error).code = "SERVER_ERROR"

\* C12: whenever withRetry fails, what it throws to its caller is a
\* classified AIError with a code of the closed set, whatever was thrown.
C12_SurfacesAIError ==
  rPhase = "thrown"
    => (Has(rThrown, "code")
        /\ rThrown.code \in {"NETWORK_ERROR", "RATE_LIMITED", "AUTH_ERROR", "SERVER_ERROR",
                             "TIMEOUT_ERROR", "UNKNOWN_ERROR"})

Touched == storeLog.removed \cup storeLog.written

KeysOf(user) == {k \in DOMAIN store : Owner(k) = user}

\* C14: eraseAllData() run while the stored identifier names a valid user
\* removes and changes no key outside that user's namespace.
C14_EraseKeepsOtherUsers ==
  (storeLog.op = "eraseAllData" /\ storeLog.stored \in Users)
    => \A k \in Touched : Owner(k) = storeLog.stored

\* user A has erased a full ledger while user B's full ledger is stored
C14_Witness ==
  /\ storeLog.op = "eraseAllData" /\ storeLog.stored = "A"
  /\ Cardinality(storeLog.removed) = 4
  /\ Cardinality(KeysOf("B")) = 4
  /\ KeysOf("A") = {}

\* what getDayData returns for a date nothing is stored for
EmptyBucket(dateKey) == [date |-> dateKey, startingBalance |-> 0, entries |-> <<>>]

\* C15: right after eraseAllData() nothing of the current user is left: no
\* key of the namespace, getHistoryDates() empty, getDebts() and getBorrows()
\* empty, and getDayData reads every date as the default empty bucket.
C15_NothingLeftAfterErase ==
  storeLog.op = "eraseAllData"
    => /\ storeLog.stored \in Users => KeysOf(storeLog.stored) = {}
       /\ getHistoryDates(store) = {}
       /\ getDebts(store) = <<>>
       /\ getBorrows(store) = <<>>
       /\ \A dateKey \in Dates : getDayData(store, dateKey) = EmptyBucket(dateKey)

\* user B has erased a starting balance, a day bucket, debts and borrows
C15_Witness ==
  /\ storeLog.op = "eraseAllData" /\ storeLog.stored = "B"
  /\ \A name \in {DEBTS_KEY, BORROWS_KEY} : <<"user_", "B", "_", name>> \in storeLog.removed
  /\ \E dateKey \in Dates :
       /\ <<"user_", "B", "_", DAILY_BAL_PREFIX, dateKey>> \in storeLog.removed
       /\ <<"user_", "B", "_", DAY_DATA_PREFIX, dateKey>> \in storeLog.removed
  /\ StoredUserId(store) = "B"

\* the operations of storage.ts and sync.ts, as the history names them
StoreOperations ==
  {"setStartingBalance", "addEntry", "addDebt", "addBorrow", "eraseAllData",
   "validateUserSession", "performFullSync"}

\* C16: no storage operation run for the signed-in user removes, creates or
\* overwrites a key of another user's namespace, whatever the stored
\* current-user identifier is (valid, missing or malformed).
C16_NoKeyOfAnotherUserTouched ==
  storeLog.op \in StoreOperations
    => \A k \in Touched : Owner(k) \notin Users \ {storeLog.actor}

\* the day buckets the last executed command changed
Modified == {d \in DayKeys : dayBuckets[d] # lastExec.before[d]}

\* C17: an add_transaction command changes the bucket of the current date,
\* the date the app itself shows as today, and no other bucket, whatever
\* date member the command carries.
C17_AppliedToCurrentDate ==
  lastExec.action = "add_transaction" => Modified = {lastExec.today}

\* what the executor does guarantee: one bucket changes, the one of the UTC
\* date of the instant, whatever date member the command carries
OnlyUtcBucketModified ==
  lastExec.action = "add_transaction" => Modified = {lastExec.dateKey}

\* the actions the executor's switch has a case for
Handled == {"add_transaction", "add_debt", "add_borrow"}

\* a result the loop answers with an error bubble: failed validation, or a
\* command whose execution throws
Failing(result) == ~result.success \/ result.command.action \notin Handled

\* a result the loop applies: it succeeded, its action is handled, and no
\* earlier result of the list has its identity
Applicable(results, i) ==
  /\ ~Failing(results[i])
  /\ \A j \in 1..(i - 1) : Failing(results[j]) \/ results[j].commandId # results[i].commandId

ErrorBubbles(msgs) ==
  Cardinality({i \in 1..Len(msgs) : msgs[i].kind \in {"commandError", "execError"}})

\* C18: when the loop over a list of results has ended, every failing result
\* has an error bubble and every applicable result was applied, also the
\* ones that come after a failing result.
C18_FailureDoesNotStopBatch ==
  (batch # <<>> /\ pending = <<>>)
    => /\ ErrorBubbles(messages) = Cardinality({i \in 1..Len(batch) : Failing(batch[i])})
       /\ {applied[k].commandId : k \in 1..Len(applied)}
            = {batch[i].commandId : i \in {j \in 1..Len(batch) : Applicable(batch, j)}}
       /\ Len(applied) = Cardinality({i \in 1..Len(batch) : Applicable(batch, i)})

\* a validation failure, then an execution failure, then a command that was
\* applied
C18_Witness ==
  /\ Len(batch) = 3 /\ pending = <<>>
  /\ ~batch[1].success
  /\ batch[2].success /\ batch[2].command.action \notin Handled
  /\ Applicable(batch, 3)
  /\ Len(applied) = 1 /\ applied[1].commandId = batch[3].commandId
  /\ ErrorBubbles(messages) = 2

\* the last user event was the RESET command
JustReset == messages # <<>> /\ messages[Len(messages)].kind = "chatReset"

\* the last user event was a question, nothing of its answer has arrived
JustSent == phase = "streaming" /\ sent = 0 /\ attempt = 0

\* the last user event was the confirmed clear-chat, outside a stream
JustCleared == phase = "idle" /\ messages = <<>> /\ turns > 0

\* C19: a new turn, the RESET command and the confirmed clear-chat each
\* leave the parser's processed set and the chat's processed set empty.
C19_ResetsEmptyBothSets ==
  (JustReset \/ JustSent \/ JustCleared)
    => processedCommands = {} /\ processedTransactions = {}

\* what holds: a new turn and the confirmed clear-chat leave both sets
\* empty, the RESET command the chat's set
ResetsEmptyTheirSets ==
  /\ (JustSent \/ JustCleared) => processedCommands = {} /\ processedTransactions = {}
  /\ JustReset => processedTransactions = {}

\* a decimal numeral: digits, with at most one point that digits follow
DecimalNumeral(s) ==
  /\ s # <<>>
  /\ \E n \in 0..Len(s) :
       /\ \A i \in 1..n : IsDigit(s[i])
       /\ \/ n = Len(s)
          \/ /\ n + 1 < Len(s)
             /\ s[n + 1] = 46
             /\ \A i \in (n + 2)..Len(s) : IsDigit(s[i])

\* the numeral is greater than 0
Positive(s) == \E i \in 1..Len(s) : IsDigit(s[i]) /\ s[i] # 48

\* the numeral is above 999,999,999.99
AboveCeiling(s) ==
  \/ Len(StripZeros(IntegerOf(s))) > 9
  \/ /\ StripZeros(IntegerOf(s)) = <<57, 57, 57, 57, 57, 57, 57, 57, 57>>
     /\ FracDigit(FractionOf(s), 1) = 9 /\ FracDigit(FractionOf(s), 2) = 9
     /\ \E i \in 3..Len(FractionOf(s)) : FractionOf(s)[i] # 48

\* the numeral rounded half-up to 2 decimals, in whole units and cents
RoundedHalfUp(s) ==
  [units |-> DigitsValue(StripZeros(IntegerOf(s)))
               + (IF FracDigit(FractionOf(s), 1) = 9 /\ FracDigit(FractionOf(s), 2) = 9
                     /\ FracDigit(FractionOf(s), 3) >= 5 THEN 1 ELSE 0),
   cents |-> (FracDigit(FractionOf(s), 1) * 10 + FracDigit(FractionOf(s), 2)
               + (IF FracDigit(FractionOf(s), 3) >= 5 THEN 1 ELSE 0)) % 100]

AcceptsExactly(cleaned, result) ==
  /\ result.isValid <=> (DecimalNumeral(cleaned) /\ Positive(cleaned) /\ ~AboveCeiling(cleaned))
  /\ result.isValid =>
       [units |-> result.units, cents |-> result.cents] = RoundedHalfUp(cleaned)

\* C20: validateAmount accepts exactly the inputs that, stripped of R, M,
\* commas and whitespace, are a decimal numeral greater than 0 and not above
\* 999,999,999.99, and returns the numeral rounded half-up to 2 decimals.
C20_AcceptsExactlyAmounts ==
  validated.call = "validateAmount"
    => AcceptsExactly(StripCurrency(Trim(validated.input)), validated.result)

\* the four examples: "0" and "-5" rejected, "12.345" accepted as 12.35,
\* "1000000000" rejected
AmountExamples ==
  /\ validated.call = "validateAmount" /\ validated.input \in {<<48>>, <<45, 53>>, <<49, 48, 48, 48, 48, 48, 48, 48, 48, 48>>}
       => ~validated.result.isValid
  /\ validated.call = "validateAmount" /\ validated.input = <<49, 50, 46, 51, 52, 53>>
       => validated.result = [isValid |-> TRUE, units |-> 12, cents |-> 35]

\* the claim holds of the numerals whose fraction has at most 7 digits
AcceptsExactlyShortFractions ==
  (validated.call = "validateAmount"
   /\ Len(FractionOf(StripCurrency(Trim(validated.input)))) <= 7)
    => AcceptsExactly(StripCurrency(Trim(validated.input)), validated.result)

\* the largest amount validateCommand lets an action carry, in mills
AmountLimit(action) == IF action = "add_transaction" THEN 1000000000 ELSE 100000000

AddActions == {"add_transaction", "add_debt", "add_borrow"}

\* the executor's loop on one result, from an empty ledger
ExecutedAlone(result) ==
  ExecOne(result, [messages |-> <<>>, processedTransactions |-> {}, entries |-> <<>>,
                   debts |-> <<>>, borrows |-> <<>>, nextId |-> 1, today |-> 0,
                   applied |-> <<>>, notices |-> {}, handed |-> <<>>, dispatched |-> <<>>,
                   awaited |-> FALSE])

Untouched(st) == st.entries = <<>> /\ st.debts = <<>> /\ st.borrows = <<>>

\* a failed result that the executor answers without touching the ledger
FailsWithoutMutation(result) == ~result.success /\ Untouched(ExecutedAlone(result))

\* the amount of a successful add command is rounded and within the limit
AmountWithinLimit(result) ==
  /\ result.command.amount = round(result.command.amount)
  /\ 0 < result.command.amount
  /\ result.command.amount <= AmountLimit(result.command.action)

\* C21: a successful add_transaction, add_debt or add_borrow carries a
\* rounded amount within the limit of its action, and an amount outside
\* that range yields a failed result and no mutation.
C21_AmountsWithinLimits ==
  (validated.call = "validateCommand" /\ validated.input.action \in AddActions)
    => /\ validated.result.success => AmountWithinLimit(validated.result)
       /\ (validated.input.amount <= 0
           \/ validated.input.amount > AmountLimit(validated.input.action))
            => FailsWithoutMutation(validated.result)

\* what holds: the amount a successful add command carries is rounded and
\* within the limit, and an amount whose rounding is outside it is refused
RoundedAmountsWithinLimits ==
  (validated.call = "validateCommand" /\ validated.input.action \in AddActions)
    => /\ validated.result.success => AmountWithinLimit(validated.result)
       /\ (round(validated.input.amount) <= 0
           \/ round(validated.input.amount) > AmountLimit(validated.input.action))
            => FailsWithoutMutation(validated.result)

DueDated ==
  /\ validated.call = "validateCommand"
  /\ validated.input.action = "add_borrow"
  /\ Has(validated.input, "dueDate")

DueDateAccepted ==
  (DueDated /\ validated.input.amount = 25000 /\ validated.input.dueDate.parseable
     /\ validated.input.dueDate.offset \in (0 - 1824)..0)
    => /\ validated.result.success
       /\ validated.result.command.dueDate = validated.input.dueDate
       /\ Len(ExecutedAlone(validated.result).borrows) = 1

\* a bucket of the requested date with a list of entries
IsBucketOf(day, dateKey) ==
  /\ day.type = "object"
  /\ {"date", "entries"} \subseteq DOMAIN day.fields
  /\ day.fields.date = JString(dateKey)
  /\ day.fields.entries.type = "array"

\* C23: whatever string is stored, getDayData returns a bucket with the
\* requested date key and an entries list on which calculateTotals and
\* addEntry do not throw, and getDebts and getBorrows return a list.
C23_ReadsNeverMalformed ==
  /\ validated.call = "getDayData"
       => /\ IsBucketOf(validated.result, validated.input.dateKey)
          /\ ~EntriesThrows(validated.result)
  /\ validated.call \in {"getDebts", "getBorrows"} => validated.result.type = "array"

\* what holds: the two lists are lists whatever is stored, and getDayData
\* returns a usable bucket when the string is absent, empty or not JSON
ReadsOfListsAndUnparsedBuckets ==
  /\ validated.call \in {"getDebts", "getBorrows"} => validated.result.type = "array"
  /\ (validated.call = "getDayData" /\ validated.input.raw.kind # "json")
       => /\ IsBucketOf(validated.result, validated.input.dateKey)
          /\ ~EntriesThrows(validated.result)

\* after is before but for the status and the updatedAt of its record i
OnlyStatusOf(before, after, i) ==
  /\ Len(after) = Len(before)
  /\ \A j \in 1..Len(before) :
       IF j = i
       THEN /\ DOMAIN after[j] = DOMAIN before[j]
            /\ \A f \in DOMAIN before[j] \ {"status", "updatedAt"} : after[j][f] = before[j][f]
            /\ after[j].status # before[j].status
       ELSE after[j] = before[j]

\* C24: markDebtPaid, markBorrowPaid, setDebtStatus and setBorrowStatus
\* change only the status and the updatedAt of the targeted record: no entry
\* is created, the day bucket and every other debt and borrow are unchanged.
C24_StatusChangeFrame ==
  [][\A i \in 1..MaxIds :
       /\ DebtsTogglePaid(i)
            => /\ OnlyStatusOf(debts, debts', i)
               /\ <<entries, startingBalance, borrows>>' = <<entries, startingBalance, borrows>>
       /\ BorrowedTogglePaid(i)
            => /\ OnlyStatusOf(borrows, borrows', i)
               /\ <<entries, startingBalance, debts>>' = <<entries, startingBalance, debts>>]_vars

\* two debts, the older one paid on the day after its creation, the newer
\* one as it was created
C24_Witness ==
  /\ Len(debts) = 2
  /\ debts[2].status = "paid" /\ debts[2].createdAt = 0 /\ debts[2].updatedAt = 1
  /\ debts[1].status = "unpaid" /\ debts[1].updatedAt = debts[1].createdAt

\* the records of after that were in before have the amounts they had
SameAmounts(before, after) ==
  \A i \in 1..Len(before), j \in 1..Len(after) :
    before[i].id = after[j].id => before[i].amount = after[j].amount

\* C25: the amount of a debt or borrow never changes after its creation,
\* across addDebt, addBorrow, the status changes and the AI commands.
C25_AmountsNeverChange ==
  [][SameAmounts(debts, debts') /\ SameAmounts(borrows, borrows')]_vars

\* a borrow of 1.01 paid on the day after its creation, beside a debt of 25
C25_Witness ==
  /\ Len(borrows) = 1 /\ Len(debts) = 1
  /\ borrows[1].amount = 1010 /\ borrows[1].status = "paid"
  /\ borrows[1].createdAt = 0 /\ borrows[1].updatedAt = 1
  /\ debts[1].amount = 25000

Ids(list) == {list[i].id : i \in 1..Len(list)}

\* no record of the two lists is removed
IdsKept == Ids(debts) \subseteq Ids(debts') /\ Ids(borrows) \subseteq Ids(borrows')

\* C26: delete_debt and delete_borrow mark the record paid and leave it in
\* the list, and no operation other than eraseAllData shrinks the set of
\* debt or borrow ids.
C26_DeleteMarksPaid ==
  [][/\ \A i \in 1..Len(debts) :
          AdvisorCommand(DebtCommand("delete_debt", debts[i].id))
            => Len(debts') = Len(debts) /\ debts'[i].status = "paid"
     /\ \A i \in 1..Len(borrows) :
          AdvisorCommand(BorrowCommand("delete_borrow", borrows[i].id))
            => Len(borrows') = Len(borrows) /\ borrows'[i].status = "paid"
     /\ ~EraseAll => IdsKept]_vars

\* what holds: only eraseAllData shrinks the two sets of ids, and a delete
\* command leaves both lists as they were
OnlyEraseRemovesRecords ==
  [][/\ ~EraseAll => IdsKept
     /\ \A i \in 1..Len(debts) :
          AdvisorCommand(DebtCommand("delete_debt", debts[i].id)) => debts' = debts
     /\ \A i \in 1..Len(borrows) :
          AdvisorCommand(BorrowCommand("delete_borrow", borrows[i].id))
            => borrows' = borrows]_vars

\* the step changes an entry, a debt or a borrow
LedgerMutated == <<entries, debts, borrows>>' # <<entries, debts, borrows>>

\* the step is one of the executor, of the debts view, of the borrowed view
\* or of the tracker
AdvisorStep ==
  \/ \E command \in AdditionCommands : AdvisorCommand(command)
  \/ \E i \in 1..Len(debts), action \in {"mark_debt_paid", "delete_debt"} :
       AdvisorCommand(DebtCommand(action, debts[i].id))
  \/ \E i \in 1..Len(borrows), action \in {"mark_borrow_paid", "delete_borrow"} :
       AdvisorCommand(BorrowCommand(action, borrows[i].id))

DebtsViewStep ==
  \/ \E personText \in PersonTexts, amountText \in AmountTexts, noteText \in NoteTexts :
       DebtsHandleAdd(personText, amountText, noteText)
  \/ \E i \in 1..MaxIds : DebtsTogglePaid(i)

BorrowedViewStep ==
  \/ \E personText \in PersonTexts, amountText \in AmountTexts, noteText \in NoteTexts :
       BorrowedHandleAdd(personText, amountText, noteText)
  \/ \E i \in 1..MaxIds : BorrowedTogglePaid(i)

TrackerStep ==
  \/ \E amountText \in AmountTexts, noteText \in NoteTexts : HandleAddEntry(amountText, noteText)
  \/ \E i \in 1..MaxIds : HandleDelete(i)

\* C27: an fts-data-changed event is dispatched after every successful
\* ledger mutation on every path: the AI executor, the debts view, the
\* borrowed view and the tracker.
C27_EveryMutationNotifies ==
  [][((AdvisorStep \/ DebtsViewStep \/ BorrowedViewStep \/ TrackerStep) /\ LedgerMutated)
       => dispatched' # <<>>]_vars

\* what holds: the executor and the debts view dispatch one event for each
\* mutation, and none without one
ExecutorAndDebtsViewNotify ==
  [][(AdvisorStep \/ DebtsViewStep) => (LedgerMutated <=> Len(dispatched') = 1)]_vars

\* a person name and a note the Input Validator lets through
NameValidated(r) == Len(r.person) >= 2 /\ Len(r.person) <= 50 /\ ~HasHtmlTag(r.person)

NoteValidated(r) == Has(r, "note") => (Len(r.note) <= 200 /\ ~HasHtmlTag(r.note))

\* C28: every path to addEntry, addDebt and addBorrow passes its input
\* through the Input Validator, so no stored record has a person name of
\* fewer than 2 or more than 50 characters, a note of more than 200, or a
\* name or note with an HTML tag in it.
C28_StoredTextValidated ==
  /\ \A i \in 1..Len(entries) : NoteValidated(entries[i])
  /\ \A i \in 1..Len(debts) : NameValidated(debts[i]) /\ NoteValidated(debts[i])
  /\ \A i \in 1..Len(borrows) : NameValidated(borrows[i]) /\ NoteValidated(borrows[i])

\* what holds: the debts, which come from the debts view and the executor
StoredDebtsValidated ==
  \A i \in 1..Len(debts) : NameValidated(debts[i]) /\ NoteValidated(debts[i])

\* a persisted amount: not negative, and its own rounding to two decimals
AmountRounded(r) == r.amount >= 0 /\ r.amount = round(r.amount)

\* amounts in mills on both sides of zero, ties included
RoundInputs == (0 - 25)..25 \cup {1004, 1005, 0 - 1005, 2005}

AlexResponse == <<"t", "M", "s", "{", "debtAlex", "}", "t">>

\* Super AI was switched on, then the question was sent, and the turn that
\* streamed the add_debt command for Alex has ended: the response arrived
\* whole, either once or, the stream having broken after the command, a
\* second time behind the first
AlexTurnEnded ==
  /\ Len(messages) >= 3 /\ messages[2].kind = "superAiEnabled" /\ messages[3].kind = "user"
  /\ phase = "idle" /\ pending = <<>> /\ turns = 1
  /\ response = AlexResponse /\ sent = Len(response)
  /\ Len(assembled) \in {Len(response), 2 * Len(response) - 1}

ConfirmationsOf(action) ==
  SelectSeq(messages, LAMBDA m : m.kind = "confirm" /\ m.action = action)

\* C30: a response with one add_debt command (Alex, 25), streamed in any
\* chunking and followed in the same turn by the identical text, ends with
\* exactly one new unpaid debt (Alex, 25.00) and exactly one confirmation.
C30_OneDebtOneConfirmation ==
  AlexTurnEnded
    => /\ Len(debts) = 1
       /\ debts[1].person = <<65, 108, 101, 120>>
       /\ debts[1].amount = 25000
       /\ debts[1].status = "unpaid"
       /\ Len(ConfirmationsOf("add_debt")) = 1
       /\ entries = <<>> /\ borrows = <<>>

\* what holds: the turn ends with that one debt, and the executor appended
\* one confirmation for it (a later delta may have overwritten the bubble)
OneDebtOneConfirmationAppended ==
  AlexTurnEnded
    => /\ Len(debts) = 1
       /\ debts[1].person = <<65, 108, 101, 120>>
       /\ debts[1].amount = 25000
       /\ debts[1].status = "unpaid"
       /\ Len(applied) = 1
       /\ Len(ConfirmationsOf("add_debt")) <= 1
       /\ entries = <<>> /\ borrows = <<>>

\* the delay withRetry slept after its i-th failed invocation
Backoff == <<1000, 2000>>

\* C33: withRetry waits 1000 ms between the first failed attempt and the
\* second attempt and 2000 ms between the second failed attempt and the
\* third; it waits only after a retryable failure, and never after the final
\* attempt or after a non-retryable failure.
C33_BackoffDelays ==
  /\ Len(rSlept) <= 2
  /\ \A i \in 1..Len(rSlept) :
       /\ rSlept[i] = Backoff[i]
       /\ i <= Len(rLog) /\ rLog[i].kind = "threw" /\ Retryable(rLog[i].error)
  /\ \A i \in 1..Len(rLog) :
       (rLog[i].kind = "threw" /\ Retryable(rLog[i].error) /\ i < MAX_RETRIES)
         => Len(rSlept) >= i
  /\ rPhase \in {"returned", "thrown"} => Len(rSlept) = Len(rLog) - 1
  /\ rPhase = "sleeping" => Len(rSlept) = Len(rLog)
  /\ rPhase = "calling" => Len(rSlept) = Len(rLog)

\* three invocations failed with retryable errors: withRetry slept 1000 ms
\* and 2000 ms, and threw after the third without a further wait
C33_Witness ==
  /\ rPhase = "thrown" /\ Len(rLog) = 3
  /\ \A i \in 1..3 : rLog[i].kind = "threw" /\ Retryable(rLog[i].error)
  /\ rSlept = <<1000, 2000>>

\* the invocations of send whose stream is in flight
Streaming == {i \in 1..Len(calls) : calls[i].at = "streaming"}

\* C31: at most one streaming model request is in flight per conversation
\* at any time: send cannot start a second stream, and so cannot clear the
\* processed-identity sets, while an earlier send has not finished, the
\* awaits before loading is set included.
C31_OneStreamInFlight == Cardinality(Streaming) <= 1

\* what holds: no invocation is started while loading is set
NoSendWhileLoading ==
  [][Len(calls') > Len(calls) => ~loading]_vars

\* the texts of a sequence joined in order
RECURSIVE Concatenation(_)
Concatenation(texts) ==
  IF texts = <<>> THEN <<>> ELSE Head(texts) \o Concatenation(Tail(texts))

\* C32: whenever callOpenRouterStream resolves, the string it resolves with
\* is the concatenation, in order, of all the deltas it passed to onDelta
\* during the call, also when an earlier API key failed after some deltas
\* and a later key succeeded.
C32_ResolvesWithAllDeltas ==
  outcome.state = "resolved" => outcome.value = Concatenation(deltas)

\* what holds: the resolved string ends the concatenation of the deltas
\* passed on, and is all of it when the first key served the whole stream
ResolvesWithDeltasOfLastKey ==
  outcome.state = "resolved"
    => /\ \E k \in 0..Len(deltas) :
            outcome.value = Concatenation(SubSeq(deltas, k + 1, Len(deltas)))
       /\ keyAt = 1 => outcome.value = Concatenation(deltas)

\* the results of the suspended callbacks, oldest callback first
RECURSIVE PendingResults(_)
PendingResults(callbacks) ==
  IF callbacks = <<>> THEN <<>> ELSE Head(callbacks) \o PendingResults(Tail(callbacks))

\* how many records of the history carry the identity
TimesIn(history, commandId) ==
  Cardinality({i \in 1..Len(history) : history[i].commandId = commandId})

\* the results a suspended callback is going to hand to the executor
ToExecute == SelectSeq(PendingResults(pending), LAMBDA r : r.success)

\* C34: when the callbacks of two consecutive deltas are both started before
\* either has executed its commands, a command completed by the earlier
\* delta is applied exactly once: its identity is recorded at parse time, so
\* the later callback gets it as a duplicate.  No identity is held for
\* execution by two callbacks or by one that follows its application, none is
\* applied twice, and once the callbacks have run every recorded identity of
\* an addition has been applied once.
C34_AppliedOnceAcrossCallbacks ==
  /\ \A i \in 1..Len(ToExecute) :
       /\ ToExecute[i].commandId \in processedCommands
       /\ TimesIn(ToExecute, ToExecute[i].commandId) = 1
       /\ TimesIn(applied, ToExecute[i].commandId) = 0
  /\ \A i \in 1..Len(applied) : TimesIn(applied, applied[i].commandId) = 1
  /\ pending = <<>>
       => \A commandId \in processedCommands :
            commandId[1] \in AddActions => TimesIn(applied, commandId) = 1

\* two callbacks are suspended: the earlier holds the command its delta
\* completed, the later the same identity as a duplicate
C34_Witness ==
  /\ Len(pending) = 2
  /\ pending[1][1].success
  /\ ~pending[2][1].success /\ Has(pending[2][1], "commandId")
  /\ pending[2][1].commandId = pending[1][1].commandId

\* how many times the sequence holds x
Occurrences(seq, x) == Cardinality({i \in 1..Len(seq) : seq[i] = x})

StoredFields == {"type", "amount", "category", "note", "person", "dueDate"}

\* the two commands have the same action and agree on each of the fields
SameOperation(c, d, fields) ==
  /\ c.action = d.action
  /\ \A f \in fields : /\ Has(c, f) <=> Has(d, f)
                       /\ Has(c, f) => c[f] = d[f]

\* every other validated command with the identity of the one validated is
\* the same operation on the fields
IdentityDetermines(fields) ==
  (validated.call = "validateCommand" /\ validated.result.success)
    => \A other \in CommandInputs :
         With(Parsed([ok |-> TRUE, obj |-> other], {}, {}),
              LAMBDA r : (r.success /\ r.commandId = validated.result.commandId)
                           => SameOperation(validated.result.command, r.command, fields))

\* C36: equal identity implies the same executed operation: two validated
\* commands to which generateCommandId gives the same identity have the same
\* action and the same value of every field the executor passes to the
\* Ledger Store (type, amount, category, note, person, dueDate).
C36_EqualIdentitySameOperation == IdentityDetermines(StoredFields)

\* what holds for the commands tried: equal identity implies the same
\* action and the same value of every stored field but dueDate
EqualIdentitySameButDueDate == IdentityDetermines(StoredFields \ {"dueDate"})

\* the last operation was a deleteEntry of an identifier its bucket did not
\* hold
DeletedAbsent == storeLog.op = "deleteEntry" /\ ~storeLog.found

\* the operation changed no key and no value, and getHistoryDates() returns
\* what it returned before
StorageAsBefore ==
  /\ storeLog.removed = {} /\ storeLog.written = {}
  /\ getHistoryDates(store) = storeLog.datesBefore

\* C39: deleteEntry(dateKey, id) with an id that is not in the bucket leaves
\* the persisted state unchanged: no entry is removed, no key is created and
\* getHistoryDates() returns the same dates, also when no bucket was
\* persisted for dateKey.
C39_DeleteAbsentChangesNothing == DeletedAbsent => StorageAsBefore

\* what holds: nothing changes when a bucket was persisted for dateKey
DeleteAbsentFromStoredBucket ==
  (DeletedAbsent /\ storeLog.persisted) => StorageAsBefore

\* C40: every result validateAmount returns with isValid = true carries a
\* value strictly greater than 0, so that a caller relying on validateAmount
\* alone never stores a record with amount 0.
C40_ValidAmountPositive ==
  (validated.call = "validateAmount" /\ validated.result.isValid)
    => (validated.result.units > 0 \/ validated.result.cents > 0)

\* what holds: an accepted value is not negative, and it is 0 only for a
\* numeral below half a cent
ValidAmountNotNegative ==
  (validated.call = "validateAmount" /\ validated.result.isValid)
    => /\ validated.result.units >= 0 /\ validated.result.cents >= 0
       /\ (validated.result.units = 0 /\ validated.result.cents = 0)
            => /\ ParseWhole(StripCurrency(Trim(validated.input))) = 0
               /\ ParseFrac(StripCurrency(Trim(validated.input))) < 5

\* C37: while Super AI mode is disabled, no streamed response mutates the
\* Ledger Store or the processed-identity sets, whatever command markers the
\* text contains: nothing is parsed, recorded, held for execution or applied.
C37_NoMutationWhileDisabled ==
  ~superAi
    => /\ entries = <<>> /\ debts = <<>> /\ borrows = <<>> /\ nextId = 1
       /\ processedCommands = {} /\ processedTransactions = {}
       /\ pending = <<>> /\ handed = <<>> /\ applied = <<>>

\* Super AI being off, a response that is one valid add_transaction command
\* was streamed to its end
C37_Witness ==
  /\ ~superAi
  /\ turns = 1 /\ phase = "idle"
  /\ response = <<"M", "{", "txnLunch", "}">> /\ sent = Len(response)
  /\ assembled = response

\* the persisted ledger: today's bucket, the debts and the borrows
Ledger ==
  [startingBalance |-> startingBalance, entries |-> entries, debts |-> debts, borrows |-> borrows]

\* the buckets of other dates: a starting balance, with or without an entry
OtherBuckets ==
  {[startingBalance |-> b, entries |-> es] :
     b \in Balances, es \in {<<>>, addEntry(<<>>, CHOOSE e \in EntryInputs : e.type = "expense"
                                                                          /\ e.amount = 1005, 0)}}

\* calculateTotals(day).remaining with the debts and borrows of the ledger
RemainingOf(day, ledger) == calculateTotals(day, ledger.debts, ledger.borrows).remaining

\* the ledger after has before's entries and starting balance, and every
\* bucket, today's and the others, has the remaining it had before
Restores(before, after) ==
  /\ after.entries = before.entries
  /\ after.startingBalance = before.startingBalance
  /\ RemainingOf(after, after) = RemainingOf(before, before)
  /\ \A day \in OtherBuckets : RemainingOf(day, after) = RemainingOf(day, before)

\* C38: marking a debt (or borrow) paid and then reverting it to unpaid
\* restores calculateTotals(bucket).remaining to its previous value for every
\* day bucket, and leaves all entries unchanged.
C38_PaidThenUnpaidRestoresRemaining ==
  /\ \A i \in 1..Len(debts) :
       debts[i].status = "unpaid"
         => Restores(Ledger, setDebtStatus(markDebtPaid(Ledger, debts[i].id, today),
                                           debts[i].id, "unpaid", today))
  /\ \A i \in 1..Len(borrows) :
       borrows[i].status = "unpaid"
         => Restores(Ledger, setBorrowStatus(markBorrowPaid(Ledger, borrows[i].id, today),
                                             borrows[i].id, "unpaid", today))

\* a debt of 30 made on the first day was marked paid and reverted to unpaid
\* by the second: with balance 100 and income 50, remaining is 120 again
C38_Witness ==
  /\ today = 1 /\ startingBalance = 100000
  /\ Len(debts) = 1 /\ debts[1].amount = 30000
  /\ debts[1].status = "unpaid" /\ debts[1].createdAt = 0 /\ debts[1].updatedAt = 1
  /\ borrows = <<>>
  /\ AmountOf(entries, "type", "income") = 50000 /\ AmountOf(entries, "type", "expense") = 0
  /\ calculateTotals(Ledger, debts, borrows).remaining = 120000

====
